---- MODULE Spec2Model ----
(***************************************************************************)
(* A model of calibre's search query parser                                *)
(* (src/src/calibre/utils/search_query_parser.py): the lexer and the       *)
(* recursive-descent parser of class Parser, the saved-search store, and   *)
(* the evaluator of class SearchQueryParser with its recursion guard.      *)
(*                                                                         *)
(* A Python string is a sequence of one-character strings.  An AST is the  *)
(* Python list the parser builds: <<"and", l, r>>, <<"or", l, r>>,         *)
(* <<"not", x>>, <<"token", location, query>>.                             *)
(***************************************************************************)
EXTENDS Integers, Sequences, FiniteSets, TLC

(***************************************************************************)
(* Bounds of the model.                                                    *)
(***************************************************************************)
\* universal_set() is 1..USize
USize == 2
\* a top-level query has at most MaxWords words
MaxWords == 2
\* the longest chain of saved searches that reference each other
MaxChain == 5
\* an expression handed to the Parser alone has at most MaxTokens words
MaxTokens == 3
\* or is any text of at most MaxChars characters
MaxChars == 4

\* the longest phrase, in words, that the grammar is tried on
MaxPhrase == 6

(***************************************************************************)
(* Text.                                                                   *)
(***************************************************************************)
\* the absent marker, where a text is expected
None == <<"None">>

WS == {" ", "\t", "\n"}

UpperLetters == <<"A", "B", "C", "D", "E", "F", "G", "H", "I", "J", "K", "L", "M",
                  "N", "O", "P", "Q", "R", "S", "T", "U", "V", "W", "X", "Y", "Z">>

LowerLetters == <<"a", "b", "c", "d", "e", "f", "g", "h", "i", "j", "k", "l", "m",
                  "n", "o", "p", "q", "r", "s", "t", "u", "v", "w", "x", "y", "z">>

LowerChar(c) ==
    IF \E i \in 1..26 : UpperLetters[i] = c
    THEN LowerLetters[CHOOSE i \in 1..26 : UpperLetters[i] = c]
    ELSE c

\* icu_lower / str.lower
icu_lower(s) == [i \in 1..Len(s) |-> LowerChar(s[i])]

\* s[k:]
Drop(s, k) == SubSeq(s, k + 1, Len(s))

\* the positions at which c1 + c2 occurs in s
Occurrences(s, c1, c2) == {i \in 1..(Len(s) - 1) : s[i] = c1 /\ s[i + 1] = c2}

\* the least element of a non-empty set of numbers
Min(S) == CHOOSE i \in S : \A j \in S : i <= j

RECURSIVE Replace2(_, _, _, _)
\* str.replace(c1 + c2, r): the occurrences from left to right, none overlapping
Replace2(s, c1, c2, r) ==
    IF Occurrences(s, c1, c2) = {} THEN s
    ELSE SubSeq(s, 1, Min(Occurrences(s, c1, c2)) - 1) \o <<r>>
            \o Replace2(Drop(s, Min(Occurrences(s, c1, c2)) + 1), c1, c2, r)

\* str.replace(c, r) for one character
Replace1(s, c, r) == [i \in 1..Len(s) |-> IF s[i] = c THEN r ELSE s[i]]

RECURSIVE strip(_)
\* str.strip()
strip(s) ==
    IF s # <<>> /\ Head(s) \in WS THEN strip(Tail(s))
    ELSE IF s # <<>> /\ s[Len(s)] \in WS THEN strip(SubSeq(s, 1, Len(s) - 1))
    ELSE s

RECURSIVE SplitColon(_)
\* str.split(':')
SplitColon(s) ==
    IF \A i \in 1..Len(s) : s[i] # ":"
    THEN <<s>>
    ELSE <<SubSeq(s, 1, Min({i \in 1..Len(s) : s[i] = ":"}) - 1)>>
            \o SplitColon(Drop(s, Min({i \in 1..Len(s) : s[i] = ":"})))

RECURSIVE JoinColon(_)
\* ':'.join(words)
JoinColon(words) ==
    IF Len(words) = 0 THEN <<>>
    ELSE IF Len(words) = 1 THEN words[1]
    ELSE words[1] \o <<":">> \o JoinColon(Tail(words))

(***************************************************************************)
(* class Parser: the lexer.                                                *)
(***************************************************************************)
OPCODE == 1
WORD == 2
QUOTED_WORD == 3
EOF == 4

\* the private placeholder characters \x01 .. \x04
X01 == "x01"
X02 == "x02"
X03 == "x03"
X04 == "x04"

\* \s
Space(c) == c \in WS

\* [^"()\s]
WordChar(c) == c \notin ({"\"", "(", ")"} \cup WS)

\* [^")\s]
AtTailChar(c) == c \notin ({"\"", ")"} \cup WS)

\* the end of the maximal run of characters satisfying the class from position p
RunEnd(s, p, InClass(_)) ==
    CHOOSE e \in p..Len(s) :
        /\ \A i \in p..e : InClass(s[i])
        /\ (e = Len(s) \/ ~InClass(s[e + 1]))

\* @.+?:[^")\s]+ at position p: the length k of the non-greedy .+? part, or 0
AtMatch(s, p) ==
    LET ks == {k \in 1..Len(s) : /\ p + k + 2 <= Len(s)
                                 /\ s[p + k + 1] = ":"
                                 /\ AtTailChar(s[p + k + 2])}
    IN IF s[p] = "@" /\ ks # {} THEN Min(ks) ELSE 0

\* ".*?((?<!\\)") at position p: the position of the closing quote, or 0
QuoteMatch(s, p) ==
    LET js == {j \in (p + 1)..Len(s) : s[j] = "\"" /\ s[j - 1] # "\\"}
    IN IF s[p] = "\"" /\ js # {} THEN Min(js) ELSE 0

RECURSIVE Scan(_, _)
\* lex_scanner.scan(expr)[0]: the tokens up to the first position no rule matches
Scan(s, p) ==
    IF p > Len(s) THEN <<>>
    ELSE IF s[p] \in {"(", ")"}
         THEN <<<<OPCODE, <<s[p]>>>>>> \o Scan(s, p + 1)
    ELSE IF AtMatch(s, p) # 0
         THEN LET e == RunEnd(s, p + AtMatch(s, p) + 2, AtTailChar)
              IN <<<<WORD, SubSeq(s, p, e)>>>> \o Scan(s, e + 1)
    ELSE IF WordChar(s[p])
         THEN LET e == RunEnd(s, p, WordChar)
              IN <<<<WORD, SubSeq(s, p, e)>>>> \o Scan(s, e + 1)
    ELSE IF QuoteMatch(s, p) # 0
         THEN <<<<QUOTED_WORD, SubSeq(s, p + 1, QuoteMatch(s, p) - 1)>>>>
                  \o Scan(s, QuoteMatch(s, p) + 1)
    ELSE IF s[p] \in WS
         THEN Scan(s, RunEnd(s, p, Space) + 1)
    ELSE <<>>

\* a parse that would scan the expression with its escapes left in
StripEscapes_none(expr) == expr

\* the escapes taken out before the scan
StripEscapes(expr) ==
    Replace2(Replace2(Replace2(Replace2(expr, "\\", "\\", X01), "\\", "\"", X02),
                      "\\", "(", X03), "\\", ")", X04)

\* and put back in the text of the words
RestoreEscapes(tv) ==
    Replace1(Replace1(Replace1(Replace1(tv, X01, "\\"), X02, "\""), X03, "("), X04, ")")

\* self.tokens as Parser.parse sets it
Tokenize(expr) ==
    LET toks == Scan(StripEscapes(expr), 1)
    IN [i \in 1..Len(toks) |->
          IF toks[i][1] = WORD \/ toks[i][1] = QUOTED_WORD
          THEN <<toks[i][1], RestoreEscapes(toks[i][2])>>
          ELSE toks[i]]

(***************************************************************************)
(* class Parser: the recursive-descent parser.  Each rule takes the token  *)
(* list, the locations and the cursor (self.current_token, counted from 1) *)
(* and returns the AST built, the cursor after it, and the message of the  *)
(* ParseException raised ("" when none is raised).                         *)
(***************************************************************************)
S_all == <<"a", "l", "l">>
S_search == <<"s", "e", "a", "r", "c", "h">>
S_or == <<"o", "r">>
S_and == <<"a", "n", "d">>
S_not == <<"n", "o", "t">>

ExtraCharacters == "Extra characters at end of search"
MissingParen == "missing )"
InvalidSyntax == "Invalid syntax. Expected a lookup name or a word"

Parsed(ast, p) == [ast |-> ast, pos |-> p, err |-> ""]

Raised(msg, p) == [ast |-> <<>>, pos |-> p, err |-> msg]

is_eof(toks, p) == p > Len(toks)

token_type(toks, p) == IF is_eof(toks, p) THEN EOF ELSE toks[p][1]

token(toks, p) == IF is_eof(toks, p) THEN None ELSE toks[p][2]

lcase_token(toks, p) == IF is_eof(toks, p) THEN None ELSE icu_lower(toks[p][2])

\* base_token that would take the first colon part for a location unseen
LocatedToken_unchecked(toks, locations, p, words) ==
    IF Len(words) > 1
    THEN Parsed(<<"token", icu_lower(words[1]), JoinColon(Tail(words))>>, p + 1)
    ELSE Parsed(<<"token", S_all, JoinColon(words)>>, p + 1)

\* base_token once the word is split at its colons
LocatedToken(toks, locations, p, words) ==
    IF Len(words) > 1 /\ icu_lower(words[1]) \in locations
    THEN IF Len(Tail(words)) = 1 /\ token_type(toks, p + 1) = QUOTED_WORD
         THEN Parsed(<<"token", icu_lower(words[1]), token(toks, p + 1)>>, p + 2)
         ELSE Parsed(<<"token", icu_lower(icu_lower(words[1])), JoinColon(Tail(words))>>, p + 1)
    ELSE Parsed(<<"token", S_all, JoinColon(words)>>, p + 1)

base_token(toks, locations, p) ==
    IF token_type(toks, p) = QUOTED_WORD
    THEN Parsed(<<"token", S_all, token(toks, p)>>, p + 1)
    ELSE LocatedToken(toks, locations, p, SplitColon(token(toks, p)))

\* ['or', lhs, rhs] and ['and', lhs, rhs], unless the right operand has raised
Binary(tag, lhs, rhs) ==
    IF rhs.err # "" THEN rhs ELSE Parsed(<<tag, lhs.ast, rhs.ast>>, rhs.pos)

\* ['not', x], unless the operand has raised
Unary(tag, x) ==
    IF x.err # "" THEN x ELSE Parsed(<<tag, x.ast>>, x.pos)

\* location_expression after the or_expression inside '(' ... ')'
CloseParen(toks, res) ==
    IF res.err # "" THEN res
    ELSE IF token_type(toks, res.pos) # OPCODE THEN Raised(MissingParen, res.pos)
    ELSE IF token(toks, res.pos) # <<")">> THEN Raised(MissingParen, res.pos + 1)
    ELSE Parsed(res.ast, res.pos + 1)

RECURSIVE or_expression(_, _, _)
RECURSIVE and_expression(_, _, _)
RECURSIVE not_expression(_, _, _)

location_expression(toks, locations, p) ==
    IF token_type(toks, p) = OPCODE /\ token(toks, p) = <<"(">>
    THEN CloseParen(toks, or_expression(toks, locations, p + 1))
    ELSE IF token_type(toks, p) \notin {WORD, QUOTED_WORD}
         THEN Raised(InvalidSyntax, p)
         ELSE base_token(toks, locations, p)

\* a 'not' that would apply to all the operands of the conjunction after it
not_expression_loose(toks, locations, p) ==
    IF lcase_token(toks, p) = S_not
    THEN Unary("not", and_expression(toks, locations, p + 1))
    ELSE location_expression(toks, locations, p)

not_expression(toks, locations, p) ==
    IF lcase_token(toks, p) = S_not
    THEN Unary("not", not_expression(toks, locations, p + 1))
    ELSE location_expression(toks, locations, p)

\* an implicit 'and' that would also be read before a parenthesis
AndOperandAt_paren(toks, lhs) ==
    IF lcase_token(toks, lhs.pos) = S_and THEN lhs.pos + 1
    ELSE IF /\ \/ token_type(toks, lhs.pos) \in {WORD, QUOTED_WORD}
               \/ (token_type(toks, lhs.pos) = OPCODE /\ token(toks, lhs.pos) = <<"(">>)
            /\ lcase_token(toks, lhs.pos) # S_or
         THEN lhs.pos
         ELSE 0

\* and_expression after its left operand: the cursor from which the right
\* operand is parsed, or 0 when there is none
AndOperandAt(toks, lhs) ==
    IF lcase_token(toks, lhs.pos) = S_and THEN lhs.pos + 1
    ELSE IF /\ token_type(toks, lhs.pos) \in {WORD, QUOTED_WORD}
            /\ lcase_token(toks, lhs.pos) # S_or
         THEN lhs.pos
         ELSE 0

AndRest(toks, locations, lhs) ==
    IF lhs.err # "" \/ AndOperandAt(toks, lhs) = 0 THEN lhs
    ELSE Binary("and", lhs, and_expression(toks, locations, AndOperandAt(toks, lhs)))

and_expression(toks, locations, p) ==
    AndRest(toks, locations, not_expression(toks, locations, p))

OrRest(toks, locations, lhs) ==
    IF lhs.err # "" \/ lcase_token(toks, lhs.pos) # S_or THEN lhs
    ELSE Binary("or", lhs, or_expression(toks, locations, lhs.pos + 1))

or_expression(toks, locations, p) ==
    OrRest(toks, locations, and_expression(toks, locations, p))

\* an end of Parser.parse that would not look for tokens left over
EndOfParse_unchecked(toks, prog) == prog

\* the end of Parser.parse: tokens left over are an error
EndOfParse(toks, prog) ==
    IF prog.err # "" THEN prog
    ELSE IF ~is_eof(toks, prog.pos) THEN Raised(ExtraCharacters, prog.pos)
    ELSE prog

ParseTokens(toks, locations) == EndOfParse(toks, or_expression(toks, locations, 1))

\* Parser.parse(expr, locations)
ParserParse(expr, locations) == ParseTokens(Tokenize(expr), locations)

(***************************************************************************)
(* The state: the saved-search store, one SearchQueryParser with its       *)
(* matcher and its Parser, and the call stack of the parse call in         *)
(* progress.                                                               *)
(***************************************************************************)
VARIABLES
    db,               \* SavedSearchQueries.db is not None: a database is attached
    pref,             \* what the database holds under opt_name
    answer,           \* what the last call of lookup or names has returned
    other,            \* the thread that is not running: its pc, query, stack, ...
    caller_candidates,  \* the candidates argument parse was called with
    tokens,           \* Parser.tokens, <<>> before the first parse
    current_token,    \* Parser.current_token, counted from 1
    prog,             \* what Parser.parse has returned to its caller, or <<>>
    queries,          \* SavedSearchQueries.queries of the global store ss
    locations,        \* self.locations
    optimize,         \* self.optimize
    sqp_parse_cache,  \* self.sqp_parse_cache: [is_none, d], d the dictionary
    recurse_level,    \* self.recurse_level
    searches_seen,    \* self.searches_seen
    matcher,          \* the subclass's get_matches: [kind, base]
    pc,               \* the caller: "idle", "running" (inside parse), "done"
    query,            \* the argument of the parse call in progress
    stack,            \* the frames of _parse and evaluate under that call
    ret,              \* the value the frame that returned last has returned
    exc,              \* the exception in flight, or the one parse ended with
    calls             \* the calls get_matches has received in this parse

vars == <<db, pref, answer, other, caller_candidates, tokens, current_token, prog, queries,
          locations, optimize, sqp_parse_cache, recurse_level,
          searches_seen, matcher, pc, query, stack, ret, exc, calls>>

\* universal_set()
universal_set == 1..USize

(***************************************************************************)
(* Exceptions.                                                             *)
(***************************************************************************)
RecursiveSavedSearch == "Recursive saved search"
UnknownSavedSearch == "Unknown saved search"
UnknownError == "Unknown error in saved search"

NoExc == [type |-> "", msg |-> "", arg |-> <<>>]

ParseException(msg, arg) == [type |-> "ParseException", msg |-> msg, arg |-> arg]

MatcherError == [type |-> "MatcherError", msg |-> "", arg |-> <<>>]

(***************************************************************************)
(* The collaborators: the saved-search store and the matcher.              *)
(***************************************************************************)
\* a byte string: the marker, then the text it decodes to
Bytes(t) == <<"bytes">> \o t

\* isinstance(x, str), None being neither text nor bytes
IsText(x) == x # None /\ (x = <<>> \/ x[1] # "bytes")

\* force_unicode(x): a byte string is decoded
force_unicode(x) == IF x # <<>> /\ x[1] = "bytes" THEN Tail(x) ELSE x

\* SavedSearchQueries.lookup, also through global_lookup_saved_search
lookup(name) ==
    IF force_unicode(name) \in DOMAIN queries THEN queries[force_unicode(name)] ELSE None

\* what the matcher finds for a query text over all entries
MatchAll(q) == IF q \in DOMAIN matcher.base THEN matcher.base[q] ELSE {}

\* get_matches(location, query, candidates): given says whether candidates
\* were passed.  "filter" searches only the candidates it is given, "tester"
\* is Tester.get_matches (an empty candidate set counts as none given),
\* "ignore" never looks at the candidates, "raise" fails on every query it
\* has no entries for.
get_matches(location, q, given, candidates) ==
    IF matcher.kind = "raise" /\ q \notin DOMAIN matcher.base
    THEN [val |-> {}, exc |-> MatcherError]
    ELSE IF matcher.kind = "filter" /\ given
         THEN [val |-> MatchAll(q) \cap candidates, exc |-> NoExc]
    ELSE IF matcher.kind = "tester" /\ given /\ candidates # {}
         THEN [val |-> MatchAll(q) \cap candidates, exc |-> NoExc]
    ELSE [val |-> MatchAll(q), exc |-> NoExc]

\* a candidates argument: given says whether it is other than None
Candidates(c) == [given |-> TRUE, candidates |-> c]

NotGiven == [given |-> FALSE, candidates |-> {}]

\* nothing has been asked of the store yet
NoAnswer == [of |-> "", query |-> None, names |-> <<>>]

\* a thread that is not inside parse
IdleThread ==
    [pc |-> "idle", query |-> <<>>, stack |-> <<>>, ret |-> {}, exc |-> NoExc,
     calls |-> <<>>, caller_candidates |-> NotGiven]

\* the record of one call of get_matches
Call(location, q, given, candidates) ==
    [location |-> location, query |-> q, given |-> given,
     candidates |-> IF given THEN candidates ELSE {}]

\* _get_matches that would pass the candidates on in both modes
MatcherArgs_always(location, q, candidates) ==
    [location |-> location, query |-> q, given |-> TRUE, candidates |-> candidates]

\* the arguments _get_matches passes on: the candidates only when optimizing
MatcherArgs(location, q, candidates) ==
    [location |-> location, query |-> q, given |-> optimize, candidates |-> candidates]

(***************************************************************************)
(* The evaluator as a function: the outcome of evaluate, _parse and parse  *)
(* from a state s = [recurse_level, searches_seen, cache, calls], as the   *)
(* value returned (val), the exception raised (exc) and the state left.    *)
(***************************************************************************)
Returns(s, v) ==
    [val |-> v, exc |-> NoExc, recurse_level |-> s.recurse_level,
     searches_seen |-> s.searches_seen, cache |-> s.cache, calls |-> s.calls]

Raises(s, e) ==
    [val |-> {}, exc |-> e, recurse_level |-> s.recurse_level,
     searches_seen |-> s.searches_seen, cache |-> s.cache, calls |-> s.calls]

Failed(r) == r.exc # NoExc

\* location.lower() == 'search'
IsSavedSearch(location) == icu_lower(location) = S_search

\* a leaf that would keep the leading '=' of the name
SavedName_kept(q) == q

\* the name a search: leaf refers to: one leading '=' is dropped
SavedName(q) == IF Len(q) > 0 /\ q[1] = "=" THEN Drop(q, 1) ELSE q

\* the depth above which the names of the saved searches entered are kept
SeenThreshold == 5

\* a guard that would begin to record the names one level deeper
SeenAfter_late(level, seen, q) ==
    IF level > SeenThreshold + 1 THEN seen \cup {q} ELSE seen

\* if self.recurse_level > 5: self.searches_seen.add(query)
SeenAfter(level, seen, q) == IF level > SeenThreshold THEN seen \cup {q} ELSE seen

\* evaluate_and that would hand the right operand all the candidates
and_candidates_all(candidates, l) == candidates

\* evaluate_and that would return what the right operand returned
and_result_right(l, r) == r

\* evaluate_and that would return the union of its operands
and_result_union(l, r) == l \cup r

\* evaluate_and: the candidates of the right operand, and the result
and_candidates(candidates, l) == l

and_result(l, r) == l \cap r

\* evaluate_or that would hand the right operand all the candidates
or_candidates_all(candidates, l) == candidates

\* evaluate_or: the candidates of the right operand, and the result
or_candidates(candidates, l) == candidates \ l

or_result(l, r) == l \cup r

\* evaluate_not that would take the complement in the universal set
not_result_universal(candidates, x) == universal_set \ x

\* evaluate_not
not_result(candidates, x) == candidates \ x

\* an except clause that would let every exception through as it is
Translate_none(e, q) == e

\* except clauses that would convert every exception
Translate_all(e, q) == ParseException(UnknownError, q)

\* the except clauses of evaluate_token: a ParseException is raised again,
\* anything else becomes a ParseException
Translate(e, q) ==
    IF e.type = "ParseException" THEN e ELSE ParseException(UnknownError, q)

\* self.sqp_parse_cache.get(query, None); <<>> stands for no AST
CacheGet(cache, q) ==
    IF ~cache.is_none /\ q \in DOMAIN cache.d THEN cache.d[q] ELSE <<>>

\* self.sqp_parse_cache[query] = res, when there is a cache
CachePut(cache, q, res) ==
    IF cache.is_none THEN cache
    ELSE [cache EXCEPT !.d = [k \in DOMAIN cache.d \cup {q} |->
                                 IF k = q THEN res ELSE cache.d[k]]]

\* the AST _parse evaluates for a query: the cached one, or a fresh parse
ParseOrCached(cache, q) ==
    IF CacheGet(cache, q) # <<>>
    THEN Parsed(CacheGet(cache, q), 0)
    ELSE ParserParse(q, locations)

\* the cache after _parse has got its AST
CacheAfter(cache, q, res) ==
    IF CacheGet(cache, q) # <<>> THEN cache ELSE CachePut(cache, q, res)

\* _get_matches once the arguments a of the call are settled
Matched(s, a, m) ==
    IF m.exc # NoExc
    THEN Raises([s EXCEPT !.calls = Append(@, Call(a.location, a.query, a.given, a.candidates))],
                m.exc)
    ELSE Returns([s EXCEPT !.calls = Append(@, Call(a.location, a.query, a.given, a.candidates))],
                 m.val)

MatchWith(s, a) == Matched(s, a, get_matches(a.location, a.query, a.given, a.candidates))

_get_matches(location, q, candidates, s) ==
    MatchWith(s, MatcherArgs(location, q, candidates))

RECURSIVE evaluate(_, _, _)
RECURSIVE _parse(_, _, _)

\* evaluate_and and evaluate_or once both operands have returned
AndReturn(l, r) == IF Failed(r) THEN r ELSE Returns(r, and_result(l.val, r.val))

OrReturn(l, r) == IF Failed(r) THEN r ELSE Returns(r, or_result(l.val, r.val))

\* evaluate_and once the left operand has returned l
AndRight(argument, candidates, l) ==
    IF Failed(l) THEN l
    ELSE AndReturn(l, evaluate(argument[2], and_candidates(candidates, l.val), l))

evaluate_and(argument, candidates, s) ==
    AndRight(argument, candidates, evaluate(argument[1], candidates, s))

\* evaluate_or once the left operand has returned l
OrRight(argument, candidates, l) ==
    IF Failed(l) THEN l
    ELSE OrReturn(l, evaluate(argument[2], or_candidates(candidates, l.val), l))

evaluate_or(argument, candidates, s) ==
    OrRight(argument, candidates, evaluate(argument[1], candidates, s))

NotReturn(candidates, x) ==
    IF Failed(x) THEN x ELSE Returns(x, not_result(candidates, x.val))

evaluate_not(argument, candidates, s) ==
    NotReturn(candidates, evaluate(argument[1], candidates, s))

\* the try block of evaluate_token after _parse has ended with r
Reraise(q, r) == IF Failed(r) THEN Raises(r, Translate(r.exc, q)) ELSE r

\* the try block of evaluate_token once the name q has passed the test
\* against searches_seen and lookup has returned ss
Expand(q, ss, candidates, s) ==
    IF ss = None
    THEN Raises(s, Translate(ParseException(UnknownSavedSearch, q), q))
    ELSE Reraise(q, _parse(ss, candidates, s))

\* the try block of evaluate_token for the saved search named q
SavedSearch(q, candidates, s) ==
    IF q \in s.searches_seen
    THEN Raises(s, Translate(ParseException(RecursiveSavedSearch, q), q))
    ELSE Expand(q, lookup(q), candidates,
                [s EXCEPT !.searches_seen = SeenAfter(s.recurse_level, @, q)])

evaluate_token(argument, candidates, s) ==
    IF IsSavedSearch(argument[1])
    THEN SavedSearch(SavedName(argument[2]), candidates, s)
    ELSE _get_matches(argument[1], argument[2], candidates, s)

evaluate(parse_result, candidates, s) ==
    IF parse_result[1] = "and" THEN evaluate_and(Tail(parse_result), candidates, s)
    ELSE IF parse_result[1] = "or" THEN evaluate_or(Tail(parse_result), candidates, s)
    ELSE IF parse_result[1] = "not" THEN evaluate_not(Tail(parse_result), candidates, s)
    ELSE evaluate_token(Tail(parse_result), candidates, s)

\* the end of _parse: the depth goes down only when evaluate has returned
Leave(t) == IF Failed(t) THEN t ELSE [t EXCEPT !.recurse_level = @ - 1]

\* _parse once the depth is counted and p is the outcome of getting the AST
ParseEval(q, candidates, s, p) ==
    IF p.err # ""
    THEN Raises(s, ParseException(p.err, <<>>))
    ELSE Leave(evaluate(p.ast, candidates, [s EXCEPT !.cache = CacheAfter(@, q, p.ast)]))

_parse(q, candidates, s) ==
    ParseEval(q, candidates, [s EXCEPT !.recurse_level = @ + 1], ParseOrCached(s.cache, q))

\* SearchQueryParser.parse(query) from a parser whose cache is cache: the
\* outcome of the whole call
parse(q, cache) ==
    _parse(q, universal_set,
           [recurse_level |-> 0, searches_seen |-> {},
            cache |-> cache, calls |-> <<>>])

(***************************************************************************)
(* The evaluator step by step: one frame per call of _parse or evaluate_*  *)
(* in progress, pos the place the call has reached.                        *)
(***************************************************************************)
Frame(fn, node, q, candidates) ==
    [fn |-> fn, node |-> node, q |-> q, candidates |-> candidates, l |-> {}, pos |-> 0]

\* the frame of evaluate(parse_result, candidates), which dispatches on the tag
EvalFrame(parse_result, candidates) ==
    Frame(parse_result[1], parse_result, <<>>, candidates)

Top == stack[Len(stack)]

Pop == SubSeq(stack, 1, Len(stack) - 1)

\* the stack with its top frame moved to pos and f pushed above it
Push(pos, f) == Append([stack EXCEPT ![Len(stack)].pos = pos], f)

Running(fn) == pc = "running" /\ exc = NoExc /\ stack # <<>> /\ Top.fn = fn

\* a parse that would go on from the recursion guard it finds
CallParse_keep(q) ==
    /\ pc = "idle"
    /\ pc' = "running"
    /\ query' = q
    /\ stack' = <<Frame("_parse", <<>>, q, universal_set)>>
    /\ ret' = {}
    /\ exc' = NoExc
    /\ calls' = <<>>
    /\ caller_candidates' = NotGiven
    /\ UNCHANGED <<db, pref, answer, other, tokens, current_token, prog, queries, locations,
                   optimize, sqp_parse_cache, matcher, recurse_level, searches_seen>>

\* a parse that would search the candidates its caller hands it
CallParseOver_passed(q, c) ==
    /\ pc = "idle"
    /\ pc' = "running"
    /\ query' = q
    /\ caller_candidates' = c
    /\ recurse_level' = 0
    /\ searches_seen' = {}
    /\ stack' = <<Frame("_parse", <<>>, q, IF c.given THEN c.candidates ELSE universal_set)>>
    /\ ret' = {}
    /\ exc' = NoExc
    /\ calls' = <<>>
    /\ UNCHANGED <<db, pref, answer, other, tokens, current_token, prog, queries, locations,
                   optimize, sqp_parse_cache, matcher>>

\* parse(query, candidates): resets the recursion guard and calls _parse over
\* universal_set(), whatever candidates its caller has passed
CallParseOver(q, c) ==
    /\ pc = "idle"
    /\ pc' = "running"
    /\ query' = q
    /\ caller_candidates' = c
    /\ recurse_level' = 0
    /\ searches_seen' = {}
    /\ stack' = <<Frame("_parse", <<>>, q, universal_set)>>
    /\ ret' = {}
    /\ exc' = NoExc
    /\ calls' = <<>>
    /\ UNCHANGED <<db, pref, answer, other, tokens, current_token, prog, queries, locations,
                   optimize, sqp_parse_cache, matcher>>

\* parse(query), the candidates left at their default None
CallParse(q) == CallParseOver(q, NotGiven)

\* _parse up to its call of evaluate, p the outcome of getting the AST
EnterParseWith(p) ==
    /\ IF CacheGet(sqp_parse_cache, Top.q) # <<>>
       THEN UNCHANGED <<tokens, current_token>>
       ELSE tokens' = Tokenize(Top.q) /\ current_token' = p.pos
    /\ IF p.err # ""
       THEN /\ exc' = ParseException(p.err, <<>>)
            /\ UNCHANGED <<stack, sqp_parse_cache>>
       ELSE /\ sqp_parse_cache' = CacheAfter(sqp_parse_cache, Top.q, p.ast)
            /\ stack' = Push(1, EvalFrame(p.ast, Top.candidates))
            /\ exc' = NoExc

EnterParse ==
    /\ Running("_parse")
    /\ Top.pos = 0
    /\ recurse_level' = recurse_level + 1
    /\ EnterParseWith(ParseOrCached(sqp_parse_cache, Top.q))
    /\ UNCHANGED <<db, pref, answer, other, caller_candidates, prog, queries, locations, optimize, searches_seen, matcher, pc,
                   query, ret, calls>>

\* _parse after evaluate has returned
ExitParse ==
    /\ Running("_parse")
    /\ Top.pos = 1
    /\ recurse_level' = recurse_level - 1
    /\ stack' = Pop
    /\ UNCHANGED <<db, pref, answer, other, caller_candidates, tokens, current_token, prog, queries, locations, optimize, sqp_parse_cache, searches_seen,
                   matcher, pc, query, ret, exc, calls>>

StepAnd ==
    /\ Running("and")
    /\ \/ /\ Top.pos = 0
          /\ stack' = Push(1, EvalFrame(Top.node[2], Top.candidates))
          /\ ret' = ret
       \/ /\ Top.pos = 1
          /\ stack' = [Push(2, EvalFrame(Top.node[3], and_candidates(Top.candidates, ret)))
                        EXCEPT ![Len(stack)].l = ret]
          /\ ret' = ret
       \/ /\ Top.pos = 2
          /\ ret' = and_result(Top.l, ret)
          /\ stack' = Pop
    /\ UNCHANGED <<db, pref, answer, other, caller_candidates, tokens, current_token, prog, queries, locations, optimize, sqp_parse_cache, recurse_level,
                   searches_seen, matcher, pc, query, exc, calls>>

StepOr ==
    /\ Running("or")
    /\ \/ /\ Top.pos = 0
          /\ stack' = Push(1, EvalFrame(Top.node[2], Top.candidates))
          /\ ret' = ret
       \/ /\ Top.pos = 1
          /\ stack' = [Push(2, EvalFrame(Top.node[3], or_candidates(Top.candidates, ret)))
                        EXCEPT ![Len(stack)].l = ret]
          /\ ret' = ret
       \/ /\ Top.pos = 2
          /\ ret' = or_result(Top.l, ret)
          /\ stack' = Pop
    /\ UNCHANGED <<db, pref, answer, other, caller_candidates, tokens, current_token, prog, queries, locations, optimize, sqp_parse_cache, recurse_level,
                   searches_seen, matcher, pc, query, exc, calls>>

StepNot ==
    /\ Running("not")
    /\ \/ /\ Top.pos = 0
          /\ stack' = Push(1, EvalFrame(Top.node[2], Top.candidates))
          /\ ret' = ret
       \/ /\ Top.pos = 1
          /\ ret' = not_result(Top.candidates, ret)
          /\ stack' = Pop
    /\ UNCHANGED <<db, pref, answer, other, caller_candidates, tokens, current_token, prog, queries, locations, optimize, sqp_parse_cache, recurse_level,
                   searches_seen, matcher, pc, query, exc, calls>>

\* a saved search that would be expanded over all the entries
EnterSavedSearch_all(q) ==
    IF q \in searches_seen
    THEN /\ exc' = ParseException(RecursiveSavedSearch, q)
         /\ UNCHANGED <<stack, searches_seen>>
    ELSE /\ searches_seen' = SeenAfter(recurse_level, searches_seen, q)
         /\ IF lookup(q) = None
            THEN /\ exc' = ParseException(UnknownSavedSearch, q)
                 /\ stack' = stack
            ELSE /\ stack' = Push(1, Frame("_parse", <<>>, lookup(q), universal_set))
                 /\ exc' = NoExc

\* the try block of evaluate_token for the saved search named q
EnterSavedSearch(q) ==
    IF q \in searches_seen
    THEN /\ exc' = ParseException(RecursiveSavedSearch, q)
         /\ UNCHANGED <<stack, searches_seen>>
    ELSE /\ searches_seen' = SeenAfter(recurse_level, searches_seen, q)
         /\ IF lookup(q) = None
            THEN /\ exc' = ParseException(UnknownSavedSearch, q)
                 /\ stack' = stack
            ELSE /\ stack' = Push(1, Frame("_parse", <<>>, lookup(q), Top.candidates))
                 /\ exc' = NoExc

\* evaluate_token on a leaf that names a saved search
StepSavedSearch ==
    /\ Running("token")
    /\ IsSavedSearch(Top.node[2])
    /\ \/ /\ Top.pos = 0
          /\ EnterSavedSearch(SavedName(Top.node[3]))
       \/ /\ Top.pos = 1
          /\ stack' = Pop
          /\ UNCHANGED <<searches_seen, exc>>
    /\ UNCHANGED <<db, pref, answer, other, caller_candidates, tokens, current_token, prog, queries, locations, optimize, sqp_parse_cache, recurse_level,
                   matcher, pc, query, ret, calls>>

\* _get_matches once the arguments a of the call are settled and the matcher
\* has answered m
StepMatched(a, m) ==
    /\ calls' = Append(calls, Call(a.location, a.query, a.given, a.candidates))
    /\ IF m.exc # NoExc
       THEN exc' = m.exc /\ UNCHANGED <<stack, ret>>
       ELSE exc' = NoExc /\ ret' = m.val /\ stack' = Pop

StepMatchWith(a) ==
    StepMatched(a, get_matches(a.location, a.query, a.given, a.candidates))

\* evaluate_token on any other leaf: _get_matches
StepMatch ==
    /\ Running("token")
    /\ ~IsSavedSearch(Top.node[2])
    /\ StepMatchWith(MatcherArgs(Top.node[2], Top.node[3], Top.candidates))
    /\ UNCHANGED <<db, pref, answer, other, caller_candidates, tokens, current_token, prog, queries, locations, optimize, sqp_parse_cache, recurse_level,
                   searches_seen, matcher, pc, query>>

\* an exception leaves the top frame; the try of evaluate_token translates it
Unwind ==
    /\ pc = "running"
    /\ exc # NoExc
    /\ stack # <<>>
    /\ stack' = Pop
    /\ exc' = IF Top.fn = "token" /\ IsSavedSearch(Top.node[2])
              THEN Translate(exc, SavedName(Top.node[3]))
              ELSE exc
    /\ UNCHANGED <<db, pref, answer, other, caller_candidates, tokens, current_token, prog, queries, locations, optimize, sqp_parse_cache, recurse_level,
                   searches_seen, matcher, pc, query, ret, calls>>

\* parse returns to its caller, or the exception reaches it
Finish ==
    /\ pc = "running"
    /\ stack = <<>>
    /\ pc' = "done"
    /\ UNCHANGED <<db, pref, answer, other, caller_candidates, tokens, current_token, prog, queries, locations, optimize, sqp_parse_cache, recurse_level,
                   searches_seen, matcher, query, stack, ret, exc, calls>>

(***************************************************************************)
(* The queries, stores and matchers the model draws from.                  *)
(***************************************************************************)
S_title == <<"t", "i", "t", "l", "e">>

\* the locations the parser is constructed with
DefaultLocations == {S_all, S_search, S_title}

W_a == <<"a">>

W_b == <<"b">>

N_x == <<"x">>

N_y == <<"y">>

N_t == <<"t">>

Digits == <<"1", "2", "3", "4", "5", "6", "7", "8", "9">>

\* the names of the saved searches of a chain: n1, n2, ...
ChainName(i) == <<"n", Digits[i]>>

\* the word search:name
SearchRef(name) == S_search \o <<":">> \o name

RECURSIVE Join(_)
\* ' '.join(words)
Join(words) ==
    IF Len(words) = 0 THEN <<>>
    ELSE IF Len(words) = 1 THEN words[1]
    ELSE words[1] \o <<" ">> \o Join(Tail(words))

\* the queries of at most n words over a vocabulary
QueriesOver(vocabulary, n) ==
    UNION {{Join(ws) : ws \in [1..k -> vocabulary]} : k \in 1..n}

EmptyStore == <<>>

\* the words of the queries parse is called with; 'or' and search:=y come in
\* through the saved searches
Vocabulary ==
    {W_a, S_title \o <<":">> \o W_b, S_not, SearchRef(N_x),
     SearchRef(<<"=", "=">> \o N_y)}

Queries == QueriesOver(Vocabulary, MaxWords)

\* stores whose saved searches nest at most two deep
SmallStores ==
    {EmptyStore,
     (N_x :> Join(<<SearchRef(<<"=">> \o N_y), S_not, W_a>>))
        @@ (N_y :> Join(<<W_a, S_or, S_title \o <<":">> \o W_b>>)),
     (N_x :> Join(<<SearchRef(<<"=">> \o N_y), SearchRef(N_y)>>))
        @@ (N_y :> Join(<<S_not, W_b>>))}

\* the matchers: the word a matches all entries but the last, the word b any
\* set of entries; kind is how the matcher treats the candidates it is given
Matchers ==
    {[kind |-> k, base |-> (W_a :> universal_set \ {USize}) @@ (W_b :> mb)] :
        k \in {"filter", "tester"}, mb \in SUBSET universal_set}

NoCache == [is_none |-> TRUE, d |-> <<>>]

EmptyCache == [is_none |-> FALSE, d |-> <<>>]

(***************************************************************************)
(* The specification: a parser is constructed, then parse is called and    *)
(* runs to its end.                                                        *)
(***************************************************************************)
\* the state after construction, but for the store, the matcher and the flags
Constructed ==
    /\ db = FALSE
    /\ pref = <<>>
    /\ answer = NoAnswer
    /\ other = IdleThread
    /\ caller_candidates = NotGiven
    /\ tokens = <<>>
    /\ current_token = 1
    /\ prog = <<>>
    /\ locations = DefaultLocations
    /\ recurse_level = 0
    /\ searches_seen = {}
    /\ pc = "idle"
    /\ query = <<>>
    /\ stack = <<>>
    /\ ret = {}
    /\ exc = NoExc
    /\ calls = <<>>

Init ==
    /\ Constructed
    /\ queries \in SmallStores
    /\ matcher \in Matchers
    /\ optimize \in BOOLEAN
    /\ sqp_parse_cache = EmptyCache

Step ==
    \/ EnterParse
    \/ ExitParse
    \/ StepAnd
    \/ StepOr
    \/ StepNot
    \/ StepSavedSearch
    \/ StepMatch
    \/ Unwind
    \/ Finish

Next ==
    \/ \E q \in Queries : CallParse(q)
    \/ Step

Spec == Init /\ [][Next]_vars

(***************************************************************************)
(* Stores whose saved searches form a chain n1 -> n2 -> ... -> nk, each    *)
(* the single word search:<next>, the last one with a body of its own; t   *)
(* is a saved search outside the chain.                                    *)
(***************************************************************************)
ChainStore(k, body) ==
    [n \in {ChainName(i) : i \in 1..k} \cup {N_t} |->
        IF n = N_t THEN W_b
        ELSE IF n = ChainName(k) THEN body
        ELSE SearchRef(ChainName((CHOOSE i \in 1..k : n = ChainName(i)) + 1))]

\* the bodies of the last saved search of a chain: back to the first (a
\* cycle), the saved search t twice (no cycle), no saved search, an unknown one
ChainBodies ==
    {SearchRef(ChainName(1)),
     Join(<<SearchRef(N_t), SearchRef(N_t)>>),
     Join(<<W_a, S_or, S_not, W_b>>),
     SearchRef(<<"u">>)}

ChainStores == {ChainStore(k, body) : k \in 1..MaxChain, body \in ChainBodies}

\* the saved searches n1 .. nk and nothing else, each the next one and the
\* last one the first: a cycle through every name of the store
CycleStore(k) ==
    [n \in {ChainName(i) : i \in 1..k} |->
        SearchRef(ChainName(((CHOOSE i \in 1..k : n = ChainName(i)) % k) + 1))]

CycleStores == {CycleStore(k) : k \in 1..MaxChain}

SavedVocabulary ==
    {S_not, SearchRef(ChainName(1)), SearchRef(<<"=">> \o ChainName(1))}

SavedQueries == QueriesOver(SavedVocabulary, MaxWords)

\* one matcher is enough where the claims are about the saved searches
SavedMatcher ==
    [kind |-> "filter", base |-> (W_a :> universal_set \ {USize}) @@ (W_b :> universal_set)]

SavedInit ==
    /\ Constructed
    /\ queries \in ChainStores \cup CycleStores
    /\ matcher = SavedMatcher
    /\ optimize \in BOOLEAN
    /\ sqp_parse_cache \in {NoCache, EmptyCache}

SavedNext ==
    \/ \E q \in SavedQueries : CallParse(q)
    \/ Step

\* EnterParse is enabled exactly when a call of _parse has just begun
EnterParseEnabled == Running("_parse") /\ Top.pos = 0

\* a call of parse runs on until it returns or raises, for the interpreter
\* does not stop in the middle of a call: weak fairness of every step, that
\* of EnterParse written out with its enabling condition
Fairness ==
    /\ WF_vars(ExitParse \/ StepAnd \/ StepOr \/ StepNot \/ StepSavedSearch
                  \/ StepMatch \/ Unwind \/ Finish)
    /\ ([]<>~EnterParseEnabled \/ []<><<EnterParse>>_vars)

SavedSpec == SavedInit /\ [][SavedNext]_vars /\ Fairness

(***************************************************************************)
(* The Parser alone: Parser().parse(expr, locations) is called once on an  *)
(* expression made of words, or on any short text over the characters the  *)
(* lexer treats specially.                                                 *)
(***************************************************************************)
Quoted(w) == <<"\"">> \o w \o <<"\"">>

\* the word Title:B
W_TitleB == <<"T", "i", "t", "l", "e", ":", "B">>

\* the word x:y
W_xy == <<"x", ":", "y">>

ParserWords ==
    {W_a, S_or, S_and, S_not, Quoted(S_or), Quoted(S_not), Quoted(W_b),
     <<"(">>, <<")">>, W_TitleB, S_title \o <<":">>, W_xy}

ParserChars == {"a", "\"", "\\", "(", ")", " "}

\* the texts of at most n characters over an alphabet
TextsOver(alphabet, n) == UNION {[1..k -> alphabet] : k \in 0..n}

ParserInputs ==
    QueriesOver(ParserWords, MaxTokens) \cup TextsOver(ParserChars, MaxChars)

\* the location lists parse is handed: the default one, and one where x is a
\* location and title is not
ParserLocations == {DefaultLocations, {S_all, <<"x">>}}

ParserInit ==
    /\ db = FALSE
    /\ pref = <<>>
    /\ answer = NoAnswer
    /\ other = IdleThread
    /\ caller_candidates = NotGiven
    /\ tokens = <<>>
    /\ current_token = 1
    /\ prog = <<>>
    /\ locations \in ParserLocations
    /\ queries = EmptyStore
    /\ matcher = SavedMatcher
    /\ optimize = FALSE
    /\ sqp_parse_cache = NoCache
    /\ recurse_level = 0
    /\ searches_seen = {}
    /\ pc = "idle"
    /\ query = <<>>
    /\ stack = <<>>
    /\ ret = {}
    /\ exc = NoExc
    /\ calls = <<>>

\* Parser.parse(expr, locations) once the tokens are scanned and the grammar
\* has ended with p
ParserReturn(p) ==
    /\ current_token' = p.pos
    /\ prog' = p.ast
    /\ exc' = IF p.err # "" THEN ParseException(p.err, <<>>) ELSE NoExc

\* Parser.parse(expr, locations), called by itself
ParserCall(expr) ==
    /\ pc = "idle"
    /\ pc' = "done"
    /\ query' = expr
    /\ tokens' = Tokenize(expr)
    /\ ParserReturn(ParserParse(expr, locations))
    /\ UNCHANGED <<db, pref, answer, other, caller_candidates, queries, locations, optimize, sqp_parse_cache, recurse_level,
                   searches_seen, matcher, stack, ret, calls>>

ParserNext == \E expr \in ParserInputs : ParserCall(expr)

ParserSpec == ParserInit /\ [][ParserNext]_vars

(***************************************************************************)
(* A session: one SearchQueryParser is used again and again.  Between two  *)
(* calls of parse its locations are changed and saved searches are added,  *)
(* deleted and renamed in the global store.                                *)
(***************************************************************************)
\* the caller has the outcome of parse and goes on
Return ==
    /\ pc = "done"
    /\ pc' = "idle"
    /\ query' = <<>>
    /\ stack' = <<>>
    /\ ret' = {}
    /\ exc' = NoExc
    /\ calls' = <<>>
    /\ UNCHANGED <<db, pref, answer, other, caller_candidates, tokens, current_token, prog, queries, locations, optimize,
                   sqp_parse_cache, recurse_level, searches_seen, matcher>>

\* a cache that would keep its entries
Cleared_kept(cache) == cache

\* self.sqp_parse_cache.clear(), when there is a cache
Cleared(cache) == IF cache.is_none THEN cache ELSE [cache EXCEPT !.d = <<>>]

\* sqp_change_locations(new_locations)
sqp_change_locations(new_locations) ==
    /\ pc = "idle"
    /\ locations' = new_locations
    /\ optimize' = optimize
    /\ sqp_parse_cache' = Cleared(sqp_parse_cache)
    /\ UNCHANGED <<db, pref, answer, other, caller_candidates, tokens, current_token, prog, queries, recurse_level, searches_seen,
                   matcher, pc, query, stack, ret, exc, calls>>

\* a save that would never reach the database
save_queries_never(q) == pref

\* save_queries() once self.queries is q: db.set_pref(self.opt_name, q), when
\* there is a database
save_queries(q) == IF db THEN q ELSE pref

\* self.queries[name] = value
Stored(name, value) ==
    [n \in DOMAIN queries \cup {name} |-> IF n = name THEN value ELSE queries[n]]

\* self.queries.pop(name, False) on the dictionary d
Popped(d, name) == [n \in DOMAIN d \ {name} |-> d[n]]

\* SavedSearchQueries.add(name, value)
add(name, value) ==
    /\ pc = "idle"
    /\ queries' = Stored(force_unicode(name), strip(force_unicode(value)))
    /\ pref' = save_queries(queries')
    /\ UNCHANGED <<db, answer, other, caller_candidates, tokens, current_token, prog,
                   locations, optimize, sqp_parse_cache, recurse_level, searches_seen,
                   matcher, pc, query, stack, ret, exc, calls>>

\* SavedSearchQueries.delete(name)
delete(name) ==
    /\ pc = "idle"
    /\ queries' = Popped(queries, force_unicode(name))
    /\ pref' = save_queries(queries')
    /\ UNCHANGED <<db, answer, other, caller_candidates, tokens, current_token, prog,
                   locations, optimize, sqp_parse_cache, recurse_level, searches_seen,
                   matcher, pc, query, stack, ret, exc, calls>>

\* SavedSearchQueries.rename(old_name, new_name)
rename(old_name, new_name) ==
    /\ pc = "idle"
    /\ queries' = Popped(Stored(force_unicode(new_name), lookup(old_name)),
                         force_unicode(old_name))
    /\ pref' = save_queries(queries')
    /\ UNCHANGED <<db, answer, other, caller_candidates, tokens, current_token, prog,
                   locations, optimize, sqp_parse_cache, recurse_level, searches_seen,
                   matcher, pc, query, stack, ret, exc, calls>>

\* SavedSearchQueries.set_all(smap)
set_all(smap) ==
    /\ pc = "idle"
    /\ queries' = smap
    /\ pref' = save_queries(queries')
    /\ UNCHANGED <<db, answer, other, caller_candidates, tokens, current_token, prog,
                   locations, optimize, sqp_parse_cache, recurse_level, searches_seen,
                   matcher, pc, query, stack, ret, exc, calls>>

\* the place of a letter in the alphabet, whatever its case
Rank(c) == CHOOSE i \in 1..26 : LowerLetters[i] = LowerChar(c)

RECURSIVE Collates(_, _)
\* sort_key(a) <= sort_key(b): letter by letter, a prefix first
Collates(a, b) ==
    IF a = <<>> THEN TRUE
    ELSE IF b = <<>> THEN FALSE
    ELSE IF Rank(a[1]) # Rank(b[1]) THEN Rank(a[1]) < Rank(b[1])
    ELSE Collates(Tail(a), Tail(b))

RECURSIVE Listed(_)
\* list(keys), in some order
Listed(keys) ==
    IF keys = {} THEN <<>>
    ELSE <<CHOOSE k \in keys : TRUE>> \o Listed(keys \ {CHOOSE k \in keys : TRUE})

\* SavedSearchQueries.names()
names == SortSeq(Listed(DOMAIN queries), LAMBDA a, b : Collates(a, b) /\ a # b)

\* a call of SavedSearchQueries.lookup(name)
CallLookup(name) ==
    /\ pc = "idle"
    /\ answer' = [of |-> "lookup", query |-> lookup(name), names |-> <<>>]
    /\ UNCHANGED <<db, pref, other, caller_candidates, tokens, current_token, prog, queries,
                   locations, optimize, sqp_parse_cache, recurse_level, searches_seen,
                   matcher, pc, query, stack, ret, exc, calls>>

\* a call of SavedSearchQueries.names()
CallNames ==
    /\ pc = "idle"
    /\ answer' = [of |-> "names", query |-> None, names |-> names]
    /\ UNCHANGED <<db, pref, other, caller_candidates, tokens, current_token, prog, queries,
                   locations, optimize, sqp_parse_cache, recurse_level, searches_seen,
                   matcher, pc, query, stack, ret, exc, calls>>

\* the queries of a session: a conjunction with a negated saved search, a
\* saved search by itself, and one the parser rejects
SessionQueries ==
    {Join(<<W_a, S_not, SearchRef(N_x)>>), SearchRef(N_y), <<"(">>}

SessionNames == {N_x, N_y}

\* what is saved: a disjunction, and a saved search that refers to itself
SessionValues == {Join(<<W_a, S_or, W_a>>), SearchRef(N_x)}

\* with the second list search is no location
SessionLocations == {DefaultLocations, {S_all}}

SessionInit ==
    /\ Constructed
    /\ queries = EmptyStore
    /\ matcher = SavedMatcher
    /\ optimize = FALSE
    /\ sqp_parse_cache \in {NoCache, EmptyCache}

SessionNext ==
    \/ \E q \in SessionQueries : CallParse(q)
    \/ Step
    \/ Return
    \/ \E l \in SessionLocations : sqp_change_locations(l)
    \/ \E n \in SessionNames, v \in SessionValues : add(n, v)
    \/ \E n \in SessionNames : delete(n)
    \/ \E o \in SessionNames, n \in SessionNames : rename(o, n)

SessionSpec == SessionInit /\ [][SessionNext]_vars

(***************************************************************************)
(* The saved-search store by itself: a SavedSearchQueries is constructed,  *)
(* with a database or without one, and its methods are called.             *)
(***************************************************************************)
W_padded == <<" ">> \o W_b \o <<" ">>

\* the names the methods are called with: two texts and a byte string
StoreNames == {N_x, N_y, Bytes(N_y)}

\* the queries add is called with: a text, one with white space around it,
\* and a byte string
StoreValues == {W_a, W_padded, Bytes(W_a)}

\* the mappings set_all is called with and the database may hold: text keys,
\* trimmed text values
StoreMaps == {EmptyStore, (N_x :> W_a), (N_x :> W_b) @@ (N_y :> W_a)}

\* db.pref(self.opt_name, {}): what the database holds, one of the mappings
db_pref == StoreMaps

\* SavedSearchQueries.__init__(db, opt_name): the queries are the ones the
\* database holds, none without a database
StoreInit ==
    /\ db \in BOOLEAN
    /\ pref \in IF db THEN db_pref ELSE {EmptyStore}
    /\ queries = pref
    /\ answer = NoAnswer
    /\ other = IdleThread
    /\ caller_candidates = NotGiven
    /\ tokens = <<>>
    /\ current_token = 1
    /\ prog = <<>>
    /\ locations = DefaultLocations
    /\ optimize = FALSE
    /\ sqp_parse_cache = NoCache
    /\ recurse_level = 0
    /\ searches_seen = {}
    /\ matcher = SavedMatcher
    /\ pc = "idle"
    /\ query = <<>>
    /\ stack = <<>>
    /\ ret = {}
    /\ exc = NoExc
    /\ calls = <<>>

StoreNext ==
    \/ \E n \in StoreNames, v \in StoreValues : add(n, v)
    \/ \E n \in StoreNames : delete(n)
    \/ \E o \in StoreNames, n \in StoreNames : rename(o, n)
    \/ \E m \in StoreMaps : set_all(m)
    \/ \E n \in StoreNames : CallLookup(n)
    \/ CallNames

StoreSpec == StoreInit /\ [][StoreNext]_vars

(***************************************************************************)
(* Two threads that call parse on the same SearchQueryParser.  The fields  *)
(* of the parser and of its Parser are shared; the calls in progress, with *)
(* their local variables, are each thread's own.  The variables pc, query, *)
(* stack, ret, exc and calls are those of the thread that is running, and  *)
(* other keeps those of the thread that is not.                            *)
(***************************************************************************)
\* the queries of the two threads: a saved search that refers to itself, a
\* saved search used twice, and words
ThreadQueries ==
    {SearchRef(ChainName(1)), Join(<<SearchRef(N_t), SearchRef(N_t)>>),
     Join(<<W_a, S_or, S_not, W_b>>)}

\* the interpreter gives the processor to the other thread
Switch ==
    /\ other' = [pc |-> pc, query |-> query, stack |-> stack, ret |-> ret, exc |-> exc,
                 calls |-> calls, caller_candidates |-> caller_candidates]
    /\ pc' = other.pc
    /\ query' = other.query
    /\ stack' = other.stack
    /\ ret' = other.ret
    /\ exc' = other.exc
    /\ calls' = other.calls
    /\ caller_candidates' = other.caller_candidates
    /\ UNCHANGED <<db, pref, answer, tokens, current_token, prog, queries, locations,
                   optimize, sqp_parse_cache, recurse_level, searches_seen, matcher>>

\* the other thread is inside Parser.parse too, on the text q
OtherParses(q) ==
    /\ other.pc = "running"
    /\ other.exc = NoExc
    /\ other.stack # <<>>
    /\ other.stack[Len(other.stack)].fn = "_parse"
    /\ other.stack[Len(other.stack)].pos = 0
    /\ other.stack[Len(other.stack)].q = q
    /\ CacheGet(sqp_parse_cache, q) = <<>>

\* _parse up to evaluate, when the other thread has assigned self.tokens
\* between this thread's assignment (line 192) and its call of or_expression
\* (line 201): the grammar reads the tokens of the other thread's text q,
\* and p is what it makes of them
EnterParseRacedWith(q, p) ==
    /\ tokens' = Tokenize(q)
    /\ current_token' = p.pos
    /\ IF p.err # ""
       THEN /\ exc' = ParseException(p.err, <<>>)
            /\ UNCHANGED <<stack, sqp_parse_cache>>
       ELSE /\ sqp_parse_cache' = CachePut(sqp_parse_cache, Top.q, p.ast)
            /\ stack' = Push(1, EvalFrame(p.ast, Top.candidates))
            /\ exc' = NoExc

EnterParseRaced ==
    /\ Running("_parse")
    /\ Top.pos = 0
    /\ CacheGet(sqp_parse_cache, Top.q) = <<>>
    /\ \E q \in ThreadQueries \cup {queries[n] : n \in DOMAIN queries} :
          /\ OtherParses(q)
          /\ EnterParseRacedWith(q, ParserParse(q, locations))
    /\ recurse_level' = recurse_level + 1
    /\ UNCHANGED <<db, pref, answer, other, caller_candidates, prog, queries, locations,
                   optimize, searches_seen, matcher, pc, query, ret, calls>>

ThreadInit ==
    /\ Constructed
    /\ queries = ChainStore(1, SearchRef(ChainName(1)))
    /\ matcher = SavedMatcher
    /\ optimize = FALSE
    /\ sqp_parse_cache = EmptyCache

ThreadNext ==
    \/ \E q \in ThreadQueries : CallParse(q)
    \/ Step
    \/ Switch
    \/ EnterParseRaced

ThreadSpec == ThreadInit /\ [][ThreadNext]_vars

(***************************************************************************)
(* parse called with a candidates argument: with none, and with every set  *)
(* of entries.                                                             *)
(***************************************************************************)
CallerQueries == QueriesOver({W_a, W_b, S_not, SearchRef(N_x)}, MaxWords)

CallerCandidates == {NotGiven} \cup {Candidates(c) : c \in SUBSET universal_set}

CallerInit ==
    /\ Constructed
    /\ queries = (N_x :> Join(<<W_b, S_or, W_a>>))
    /\ matcher = SavedMatcher
    /\ optimize \in BOOLEAN
    /\ sqp_parse_cache = EmptyCache

CallerNext ==
    \/ \E q \in CallerQueries, c \in CallerCandidates : CallParseOver(q, c)
    \/ Step

CallerSpec == CallerInit /\ [][CallerNext]_vars

(***************************************************************************)
(* The grammar by itself: Parser.parse is called on phrases of operands,   *)
(* operators and parentheses, every parenthesis with its partner.          *)
(***************************************************************************)
GrammarWords == {W_a, S_or, S_and, S_not, <<"(">>, <<")">>}

RECURSIVE Closes(_, _)
\* the words ws close the d parentheses that are open, and their own
Closes(ws, d) ==
    IF ws = <<>> THEN d = 0
    ELSE IF ws[1] = <<"(">> THEN Closes(Tail(ws), d + 1)
    ELSE IF ws[1] = <<")">> THEN d > 0 /\ Closes(Tail(ws), d - 1)
    ELSE Closes(Tail(ws), d)

GrammarInputs ==
    {Join(ws) : ws \in {w \in UNION {[1..k -> GrammarWords] : k \in 1..MaxPhrase} :
                            Closes(w, 0)}}

GrammarInit == ParserInit /\ locations = DefaultLocations

GrammarNext == \E expr \in GrammarInputs : ParserCall(expr)

GrammarSpec == GrammarInit /\ [][GrammarNext]_vars

(***************************************************************************)
(* A matcher that fails: get_matches raises an exception of its own for    *)
(* the queries it has no entries for, at the top level of a query and      *)
(* inside the saved searches the query refers to.                          *)
(***************************************************************************)
RaisingMatchers ==
    {[kind |-> "raise", base |-> b] : b \in {<<>>, (W_a :> universal_set)}}

\* x refers to y, whose leaf b fails; x has a leaf that fails after one that
\* does not
RaisingStores ==
    {(N_x :> Join(<<SearchRef(N_y), W_a>>)) @@ (N_y :> W_b),
     (N_x :> Join(<<W_a, S_or, W_b>>))}

RaisingQueries == QueriesOver({W_a, W_b, S_or, S_not, SearchRef(N_x)}, MaxWords)

RaisingInit ==
    /\ Constructed
    /\ queries \in RaisingStores
    /\ matcher \in RaisingMatchers
    /\ optimize = FALSE
    /\ sqp_parse_cache = EmptyCache

RaisingNext ==
    \/ \E q \in RaisingQueries : CallParse(q)
    \/ Step

RaisingSpec == RaisingInit /\ [][RaisingNext]_vars

(***************************************************************************)
(* The properties of the evaluator.                                        *)
(***************************************************************************)
\* the frame a step has pushed: the call of evaluate(node, candidates)
Pushed(node, candidates) ==
    /\ Len(stack') = Len(stack) + 1
    /\ stack'[Len(stack')] = EvalFrame(node, candidates)

\* the top frame returns v to its caller
Returned(v) == stack' = Pop /\ ret' = v /\ exc' = NoExc

\* C1: an 'and' node evaluates its left operand with the candidates C it was
\* given, then its right operand with L, the set the left operand returned,
\* and returns the intersection of L and what the right operand returned
C1_Step ==
    Running("and") =>
        \/ Top.pos = 0 /\ Pushed(Top.node[2], Top.candidates)
        \/ Top.pos = 1 /\ Pushed(Top.node[3], ret) /\ stack'[Len(stack)].l = ret
        \/ Top.pos = 2 /\ Returned(Top.l \cap ret)

C1_AndNarrows == [][C1_Step]_vars

\* an 'and' node about to return, whose left operand has narrowed the
\* candidates and whose right operand has returned something outside L
C1_Witness ==
    /\ Running("and")
    /\ Top.pos = 2
    /\ Top.l # Top.candidates
    /\ Top.l # {}
    /\ Top.l \cap ret # ret

\* C2: an 'or' node evaluates its left operand with C, then its right operand
\* with C \ L only, and returns the union of L and what the right returned
C2_Step ==
    Running("or") =>
        \/ Top.pos = 0 /\ Pushed(Top.node[2], Top.candidates)
        \/ Top.pos = 1 /\ Pushed(Top.node[3], Top.candidates \ ret)
                       /\ stack'[Len(stack)].l = ret
        \/ Top.pos = 2 /\ Returned(Top.l \cup ret)

C2_OrSkipsMatched == [][C2_Step]_vars

\* an 'or' node about to return, whose left operand matched some but not all
\* of the candidates and whose right operand has added something
C2_Witness ==
    /\ Running("or")
    /\ Top.pos = 2
    /\ Top.l # {}
    /\ Top.candidates \ Top.l # {}
    /\ Top.candidates \ Top.l # Top.candidates
    /\ ret \ Top.l # {}

\* C3: a 'not' node evaluates its operand with C and returns C minus what the
\* operand returned, a subset of C
C3_Step ==
    Running("not") =>
        \/ Top.pos = 0 /\ Pushed(Top.node[2], Top.candidates)
        \/ Top.pos = 1 /\ Returned(Top.candidates \ ret) /\ ret' \subseteq Top.candidates

C3_NotComplementsInC == [][C3_Step]_vars

\* a 'not' node about to return, given some but not all of the universal
\* set, where the complement in C is not the complement in the universal set
C3_Witness ==
    /\ Running("not")
    /\ Top.pos = 1
    /\ Top.candidates # universal_set
    /\ Top.candidates # {}
    /\ Top.candidates \ ret # universal_set \ ret

\* the leaf of a token frame that does not name a saved search
IsMatcherLeaf == Running("token") /\ ~IsSavedSearch(Top.node[2])

\* the matcher is called once more, with the arguments a, and what it returns
\* is returned unchanged
CalledOnce(a) ==
    /\ calls' = Append(calls, Call(a.location, a.query, a.given, a.candidates))
    /\ Returned(get_matches(a.location, a.query, a.given, a.candidates).val)

\* C4 as the specification states it: in both modes a leaf calls the matcher
\* once with its location, its query and the current candidates
C4_Original_Step ==
    IsMatcherLeaf =>
        CalledOnce([location |-> Top.node[2], query |-> Top.node[3],
                    given |-> TRUE, candidates |-> Top.candidates])

C4_Original == [][C4_Original_Step]_vars

\* C4: a leaf that does not name a saved search calls the matcher exactly
\* once with its location and its query, with the current candidates when
\* optimize is on and with no candidates when it is off, and returns what the
\* matcher returned unchanged
C4_Step ==
    IsMatcherLeaf =>
        CalledOnce([location |-> Top.node[2], query |-> Top.node[3],
                    given |-> optimize, candidates |-> Top.candidates])

C4_LeafCallsMatcherOnce == [][C4_Step]_vars

\* a leaf has just called the matcher without candidates, optimize being off,
\* while the candidates at the leaf were fewer than the universal set
C4_Witness ==
    /\ ~optimize
    /\ Len(calls) = 2
    /\ ~calls[2].given
    /\ calls[2].location = S_title
    /\ ret = MatchAll(W_b)
    /\ ~(ret \subseteq MatchAll(W_a))

RECURSIVE Naive(_, _)

\* the naive meaning of a stored query that has parsed as p
NaiveSaved(p, fuel) == IF p.err # "" THEN {} ELSE Naive(p.ast, fuel)

\* the naive meaning of the saved search called name
NaiveLookup(name, fuel) ==
    IF fuel = 0 \/ lookup(name) = None THEN {}
    ELSE NaiveSaved(ParserParse(lookup(name), locations), fuel - 1)

\* the naive meaning of an expression: and is intersection, or is union, not
\* is the complement in the universal set, a leaf is what the matcher finds
\* over the universal set, a saved search is the meaning of its stored query;
\* fuel bounds the nesting of saved searches
Naive(e, fuel) ==
    IF e[1] = "and" THEN Naive(e[2], fuel) \cap Naive(e[3], fuel)
    ELSE IF e[1] = "or" THEN Naive(e[2], fuel) \cup Naive(e[3], fuel)
    ELSE IF e[1] = "not" THEN universal_set \ Naive(e[2], fuel)
    ELSE IF IsSavedSearch(e[2]) THEN NaiveLookup(SavedName(e[3]), fuel)
    ELSE get_matches(e[2], e[3], TRUE, universal_set).val

\* saved searches that do not refer to themselves nest no deeper than this
NaiveFuel == Cardinality(DOMAIN queries)

\* parse has returned a set, with a matcher that searches only the candidates
\* it is given
FilterDone == pc = "done" /\ exc = NoExc /\ matcher.kind = "filter"

\* C5: with a matcher that returns exactly the matching items among the
\* candidates it is given, parse returns in both optimize modes the set the
\* naive semantics gives the expression, saved searches expanded
C5_SameAsNaive ==
    FilterDone => ret = NaiveSaved(ParserParse(query, locations), NaiveFuel)

\* parse has returned a set that is neither empty nor everything for a query
\* that intersects a word with a saved search, optimize being off
C5_Witness ==
    /\ FilterDone
    /\ ~optimize
    /\ query = Join(<<W_a, SearchRef(N_x)>>)
    /\ Len(calls) >= 3
    /\ ret # {}
    /\ ret # universal_set

\* the same with optimize on
C5_WitnessOptimized ==
    /\ FilterDone
    /\ optimize
    /\ query = Join(<<W_a, SearchRef(N_x)>>)
    /\ Len(calls) >= 3
    /\ ret # {}
    /\ ret # universal_set

\* the state of the parser as the functions of the evaluator take it
Now ==
    [recurse_level |-> recurse_level, searches_seen |-> searches_seen,
     cache |-> sqp_parse_cache, calls |-> calls]

\* a call of evaluate has just begun: its node is any expression x
Evaluating == pc = "running" /\ exc = NoExc /\ stack # <<>> /\ Top.fn # "_parse" /\ Top.pos = 0

\* the matcher returns exactly the matching items among the candidates it is
\* given, and it is given them
Confined == optimize /\ matcher.kind = "filter"

\* a, x and y being what And(x, y), x and y evaluate to over the same
\* candidates: a lies within both x and y
AndWithinBoth(a, x, y) ==
    (~Failed(a) /\ ~Failed(x) /\ ~Failed(y)) => a.val \subseteq x.val \cap y.val

\* C6 as the specification states it: for every candidate set C, what
\* And(x, y) evaluates to over C lies within what x and what y evaluate to
\* over C, in both optimize modes; here for the matcher that returns exactly
\* the matching items among the candidates it is given
C6_Original ==
    Running("and") /\ Top.pos = 0 /\ matcher.kind = "filter" =>
        \A C \in SUBSET universal_set :
            AndWithinBoth(evaluate(Top.node, C, Now), evaluate(Top.node[2], C, Now),
                          evaluate(Top.node[3], C, Now))

\* a lies within x, and within y when the results stay within the candidates
AndWithin(C, a, x, y) ==
    (~Failed(a) /\ ~Failed(x) /\ ~Failed(y)) =>
        /\ a.val \subseteq x.val
        /\ (Confined \/ (matcher.kind = "filter" /\ C = universal_set))
              => a.val \subseteq y.val

\* C6: when nothing raises, what And(x, y) evaluates to over C lies within
\* what x evaluates to over C; it lies within what y evaluates to over C as
\* well when the matcher returns exactly the matching items among the
\* candidates it is given and either optimize is on or C is the universal set
C6_AndWithinOperands ==
    Running("and") /\ Top.pos = 0 =>
        \A C \in SUBSET universal_set :
            AndWithin(C, evaluate(Top.node, C, Now), evaluate(Top.node[2], C, Now),
                      evaluate(Top.node[3], C, Now))

\* an 'and' node begins over fewer candidates than the universal set, the
\* results staying within the candidates, and evaluates to something
C6_Witness ==
    /\ Running("and")
    /\ Top.pos = 0
    /\ Confined
    /\ Top.candidates # universal_set
    /\ ~Failed(evaluate(Top.node, Top.candidates, Now))
    /\ evaluate(Top.node, Top.candidates, Now).val # {}

\* x and nx being what x and Not(x) evaluate to over C: together they are C
CoversExactly(C, x, nx) ==
    (~Failed(x) /\ ~Failed(nx)) => x.val \cup nx.val = C

\* C7 as the specification states it: for every expression x and candidate
\* set C, what x and Not(x) evaluate to over C together make exactly C; here
\* for the matcher that returns exactly the matching items among the
\* candidates it is given
C7_Original ==
    Evaluating /\ matcher.kind = "filter" =>
        \A C \in SUBSET universal_set :
            CoversExactly(C, evaluate(Top.node, C, Now),
                          evaluate(<<"not", Top.node>>, C, Now))

\* together they are C and whatever x matched outside C, which is nothing
\* when the results stay within the candidates or C is the universal set
Covers(C, x, nx) ==
    (~Failed(x) /\ ~Failed(nx)) =>
        /\ x.val \cup nx.val = C \cup x.val
        /\ (Confined \/ C = universal_set) => x.val \cup nx.val = C

\* C7: when nothing raises, what x and Not(x) evaluate to over C together
\* make C and the items x matched outside C; they make exactly C when C is
\* the universal set, and for every C when optimize is on and the matcher
\* returns exactly the matching items among the candidates it is given
C7_NotCoversCandidates ==
    Evaluating =>
        \A C \in SUBSET universal_set :
            Covers(C, evaluate(Top.node, C, Now), evaluate(<<"not", Top.node>>, C, Now))

\* an expression that is no leaf begins over some but not all of the
\* universal set, the results staying within the candidates, and matches
\* some of them
C7_Witness ==
    /\ Evaluating
    /\ Confined
    /\ Top.fn # "token"
    /\ Top.candidates # universal_set
    /\ ~Failed(evaluate(Top.node, Top.candidates, Now))
    /\ evaluate(Top.node, Top.candidates, Now).val # {}

\* the stored query text is the single word search:<name> of a saved search
\* of the store
PureRef(p) ==
    /\ p.err = ""
    /\ p.ast[1] = "token"
    /\ IsSavedSearch(p.ast[2])
    /\ SavedName(p.ast[3]) \in DOMAIN queries

RECURSIVE Follows(_, _)

FollowsParsed(p, n) == PureRef(p) /\ Follows(queries[SavedName(p.ast[3])], n - 1)

\* from text, n references in a row are pure references to saved searches
Follows(text, n) == n = 0 \/ FollowsParsed(ParserParse(text, locations), n)

\* the query leads into a cycle of pure search: references: more references
\* in a row than there are saved searches
PureCycle(text) == Follows(text, Cardinality(DOMAIN queries) + 1)

RecursiveError == exc.type = "ParseException" /\ exc.msg = RecursiveSavedSearch

\* the depth a cycle of pure references is followed to at most
CycleDepth == Cardinality(DOMAIN queries) + SeenThreshold + 1

\* C8: when saved search x has the stored query search:x, or the stored
\* queries form a cycle of pure search: references, parse('search:x') ends
\* by raising ParseException 'Recursive saved search': the depth stays
\* bounded and no other exception is ever raised
C8_CycleRaises ==
    /\ (pc = "running" /\ PureCycle(query)) ~> (pc = "done" /\ RecursiveError)
    /\ [](pc # "idle" /\ PureCycle(query) =>
             /\ recurse_level <= CycleDepth
             /\ exc = NoExc \/ RecursiveError)

\* parse('search:n1') has raised 'Recursive saved search: n1' where n1 is
\* stored as search:n1, seven levels deep
C8_Witness ==
    /\ pc = "done"
    /\ query = SearchRef(ChainName(1))
    /\ queries[ChainName(1)] = SearchRef(ChainName(1))
    /\ exc = ParseException(RecursiveSavedSearch, ChainName(1))
    /\ recurse_level = SeenThreshold + 2
    /\ calls = <<>>

RECURSIVE Refs(_)
\* the saved searches an expression names
Refs(e) ==
    IF e[1] \in {"and", "or"} THEN Refs(e[2]) \cup Refs(e[3])
    ELSE IF e[1] = "not" THEN Refs(e[2])
    ELSE IF IsSavedSearch(e[2]) THEN {SavedName(e[3])}
    ELSE {}

RefsParsed(p) == IF p.err # "" THEN {} ELSE Refs(p.ast)

\* the saved searches a query text names
RefsOf(text) == RefsParsed(ParserParse(text, locations))

RECURSIVE Reach(_, _)
\* the saved searches reached from those of S in at most n references
Reach(S, n) ==
    IF n = 0 THEN S
    ELSE Reach(S \cup UNION {RefsOf(queries[m]) : m \in S \cap DOMAIN queries}, n - 1)

\* the saved searches reached from a query text
ReachedFrom(text) == Reach(RefsOf(text), Cardinality(DOMAIN queries))

\* the reference graph reachable from the query contains a cycle
CycleReachable ==
    \E n \in ReachedFrom(query) \cap DOMAIN queries : n \in ReachedFrom(queries[n])

\* C9: parse raises 'Recursive saved search' only if the reference graph of
\* the saved searches reachable from the query contains a cycle
C9_OnlyCyclesRaise == pc = "done" /\ RecursiveError => CycleReachable

\* the saved search name a leaf refers to: its text less one leading '='
Stripped(q) == IF Len(q) > 0 /\ Head(q) = "=" THEN Tail(q) ELSE q

\* a leaf with location 'search' is reached whose name, less one leading '=',
\* is no key of the store
UnknownLeaf ==
    /\ Running("token")
    /\ Top.pos = 0
    /\ icu_lower(Top.node[2]) = S_search
    /\ Stripped(Top.node[3]) \notin DOMAIN queries

UnknownRaised == exc.type = "ParseException" /\ exc.msg = UnknownSavedSearch

\* C10: a leaf with location 'search' whose name, less exactly one leading
\* '=', is no key of the store raises ParseException 'Unknown saved search'
\* for that name, and the exception leaves the leaf as it is; the matcher is
\* not called and the store does not change
C10_Step ==
    /\ UnknownLeaf =>
          /\ exc' = ParseException(UnknownSavedSearch, Stripped(Top.node[3]))
          /\ calls' = calls
          /\ queries' = queries
    /\ (pc = "running" /\ UnknownRaised) =>
          /\ exc' = exc
          /\ calls' = calls
          /\ queries' = queries

C10_UnknownSavedSearch == [][C10_Step]_vars

\* parse has raised 'Unknown saved search: =y' for a leaf search:==y, after
\* one call of the matcher for the leaf before it, y being a saved search
C10_Witness ==
    /\ pc = "done"
    /\ exc = ParseException(UnknownSavedSearch, <<"=">> \o N_y)
    /\ N_y \in DOMAIN queries
    /\ Len(calls) = 1
    /\ query = Join(<<W_a, SearchRef(<<"=", "=">> \o N_y)>>)

(***************************************************************************)
(* The properties of the Parser.                                           *)
(***************************************************************************)
RECURSIVE Leaves(_)
\* the leaves of an AST, from left to right
Leaves(ast) ==
    IF ast[1] = "token" THEN <<ast>>
    ELSE IF ast[1] = "not" THEN Leaves(ast[2])
    ELSE Leaves(ast[2]) \o Leaves(ast[3])

RECURSIVE Nodes(_, _)
\* how many nodes of an AST carry the tag op
Nodes(ast, op) ==
    IF ast[1] = "token" THEN 0
    ELSE (IF ast[1] = op THEN 1 ELSE 0)
         + (IF ast[1] = "not" THEN Nodes(ast[2], op)
            ELSE Nodes(ast[2], op) + Nodes(ast[3], op))

\* Parser.parse has returned an AST
ParserReturned == pc = "done" /\ exc = NoExc /\ prog # <<>>

\* the token at i is a word with a colon in it
HasColon(i) ==
    tokens[i][1] = WORD /\ \E k \in DOMAIN tokens[i][2] : tokens[i][2][k] = ":"

\* the quoted tokens of text t that do not follow a word with a colon
QuotedAlone(t) ==
    {i \in DOMAIN tokens : /\ tokens[i] = <<QUOTED_WORD, t>>
                           /\ ~(i > 1 /\ HasColon(i - 1))}

\* the leaves of l that search t everywhere
LiteralLeaves(l, t) == {j \in DOMAIN l : l[j] = <<"token", S_all, t>>}

\* the unquoted words whose lowercase form is t
KeywordTokens(t) ==
    {i \in DOMAIN tokens : tokens[i][1] = WORD /\ icu_lower(tokens[i][2]) = t}

\* C11: a quoted "or", "and" or "not" is never an operator: whenever the
\* parser returns an AST, each quoted keyword (not the quoted text of a
\* location) is a leaf that searches it everywhere, and the AST has no more
\* 'or' and 'not' nodes than there are unquoted words or and not
C11_QuotedKeywordIsLiteral ==
    ParserReturned =>
        /\ \A t \in {S_or, S_and, S_not} :
              Cardinality(QuotedAlone(t)) <= Cardinality(LiteralLeaves(Leaves(prog), t))
        /\ Nodes(prog, "or") <= Cardinality(KeywordTokens(S_or))
        /\ Nodes(prog, "not") <= Cardinality(KeywordTokens(S_not))

\* the token at i is a word or a quoted word
IsWordToken(toks, i) == toks[i][1] = WORD \/ toks[i][1] = QUOTED_WORD

\* the token at i reads or, and or not, quoted or not
ReadsKeyword(toks, i) ==
    IsWordToken(toks, i) /\ icu_lower(toks[i][2]) \in {S_or, S_and, S_not}

\* the token at i is a word that ends in a colon: a location whose text is
\* the quoted word that follows
OpensQuoted(toks, i) ==
    toks[i][1] = WORD /\ toks[i][2][Len(toks[i][2])] = ":"

\* an operand ends at i: a closing parenthesis, or a word that is no keyword
\* and does not wait for its quoted text
OperandEndsAt(toks, i) ==
    \/ toks[i] = <<OPCODE, <<")">>>>
    \/ IsWordToken(toks, i) /\ ~ReadsKeyword(toks, i) /\ ~OpensQuoted(toks, i)

\* a word that is neither or nor and stands at i
WordFollowsAt(toks, i) ==
    IsWordToken(toks, i) /\ icu_lower(toks[i][2]) \notin {S_or, S_and}

\* the tokens with the keyword and put in before the token at i
WithAnd(toks, i) ==
    SubSeq(toks, 1, i - 1) \o <<<<WORD, S_and>>>> \o SubSeq(toks, i, Len(toks))

\* two outcomes of the parser that differ at most in the cursor
SameOutcome(p1, p2) == p1.ast = p2.ast /\ p1.err = p2.err

\* C12: where an operand is followed directly by a word or quoted word that
\* is not or, the parser does what it does with the keyword and between the
\* two: 'A B' and 'A and B' give the same AST, or the same error
C12_ImplicitAnd ==
    pc = "done" =>
        \A i \in 2..Len(tokens) :
            (OperandEndsAt(tokens, i - 1) /\ WordFollowsAt(tokens, i))
                => SameOutcome(ParseTokens(tokens, locations),
                               ParseTokens(WithAnd(tokens, i), locations))

\* the places of the colons of a word
Colons(w) == {k \in DOMAIN w : w[k] = ":"}

\* the text of a word before its first colon, the whole word if it has none
FirstPart(w) == IF Colons(w) = {} THEN w ELSE SubSeq(w, 1, Min(Colons(w)) - 1)

\* the text of a word after its first colon
AfterFirstColon(w) == SubSeq(w, Min(Colons(w)) + 1, Len(w))

\* the word w names a location: it has a colon, and the lowercase form of
\* the text before the first one is in the location list
NamesLocation(w) == Colons(w) # {} /\ icu_lower(FirstPart(w)) \in locations

\* the unquoted words that are no keyword
PlainWords == {i \in DOMAIN tokens : tokens[i][1] = WORD /\ ~ReadsKeyword(tokens, i)}

\* the location of the leaf is all, or a member of the location list that
\* is the lowercase first colon part of a word of the expression
LeafLocationKnown(leaf) ==
    \/ leaf[2] = S_all
    \/ /\ leaf[2] \in locations
       /\ \E i \in DOMAIN tokens : /\ tokens[i][1] = WORD
                                   /\ NamesLocation(tokens[i][2])
                                   /\ leaf[2] = icu_lower(FirstPart(tokens[i][2]))

\* the leaf the word at i has become: all with the whole word when it names
\* no location, else the location and the text after the colon, unless a
\* quoted word follows; the text in the case it was written in
LeafOfWord(i) ==
    IF ~NamesLocation(tokens[i][2])
    THEN <<"token", S_all, tokens[i][2]>>
    ELSE <<"token", icu_lower(FirstPart(tokens[i][2])), AfterFirstColon(tokens[i][2])>>

QuotedFollows(i) == i < Len(tokens) /\ tokens[i + 1][1] = QUOTED_WORD

IsLeafOf(ast, leaf) == \E j \in DOMAIN Leaves(ast) : Leaves(ast)[j] = leaf

ParserRaised ==
    /\ pc = "done"
    /\ prog = <<>>
    /\ exc.type = "ParseException"
    /\ exc.msg \in {ExtraCharacters, MissingParen, InvalidSyntax}

RECURSIVE Depth(_, _)
\* how many parentheses are open after the first n tokens, -1 once one was
\* closed that had not been opened
Depth(toks, n) ==
    IF n = 0 THEN 0
    ELSE IF Depth(toks, n - 1) = -1 THEN -1
    ELSE IF toks[n] = <<OPCODE, <<"(">>>> THEN Depth(toks, n - 1) + 1
    ELSE IF toks[n] = <<OPCODE, <<")">>>> THEN Depth(toks, n - 1) - 1
    ELSE Depth(toks, n - 1)

\* the last token is an operator that has no operand after it: not by
\* itself, or a keyword after the end of an operand
OperatorAtEnd(toks) ==
    /\ toks # <<>>
    /\ toks[Len(toks)][1] = WORD
    /\ IF Len(toks) = 1 THEN icu_lower(toks[1][2]) = S_not
       ELSE /\ icu_lower(toks[Len(toks)][2]) \in {S_or, S_and, S_not}
            /\ OperandEndsAt(toks, Len(toks) - 1)

LeafOfPair(i) ==
    <<"token", icu_lower(FirstPart(tokens[i][2])), tokens[i + 1][2]>>

\* the text of the token at i is in a leaf of the AST: a quoted word as the
\* query of a leaf, a word as the leaf it stands for, or as the location of
\* the quoted word after it when it ends in the colon
TextKept(ast, i) ==
    IF tokens[i][1] = QUOTED_WORD
    THEN \E j \in DOMAIN Leaves(ast) : Leaves(ast)[j][3] = tokens[i][2]
    ELSE \/ IsLeafOf(ast, LeafOfWord(i))
         \/ /\ NamesLocation(tokens[i][2])
            /\ QuotedFollows(i)
            /\ AfterFirstColon(tokens[i][2]) = <<>>
            /\ IsLeafOf(ast, LeafOfPair(i))

\* C15: the parser drops no input: when it returns an AST, the text of every
\* word and quoted word that is not a keyword is in the location or the
\* query of a leaf
C15_NoTokenDropped ==
    ParserReturned =>
        \A i \in DOMAIN tokens :
            (IsWordToken(tokens, i) /\ ~ReadsKeyword(tokens, i)) => TextKept(prog, i)

(***************************************************************************)
(* The properties of the lexer, stated on the text of the expression.      *)
(***************************************************************************)
RECURSIVE Escaped(_, _)
\* the character at i comes after a backslash that is not itself escaped
Escaped(s, i) == i > 1 /\ s[i - 1] = "\\" /\ ~Escaped(s, i - 1)

\* the quotes of a text that are not escaped
OpenQuotes(s) == {i \in DOMAIN s : s[i] = "\"" /\ ~Escaped(s, i)}

\* the last quote of the text has no closing quote
Unterminated(s) == Cardinality(OpenQuotes(s)) % 2 = 1

\* the characters of a text that are plain text to the lexer
Letters(s) == {i \in DOMAIN s : s[i] \notin ({"\"", "\\", "(", ")"} \cup WS)}

RECURSIVE LettersOfTokens(_)
\* how many plain characters the words and quoted words of toks hold
LettersOfTokens(toks) ==
    IF toks = <<>> THEN 0
    ELSE (IF IsWordToken(toks, 1) THEN Cardinality(Letters(toks[1][2])) ELSE 0)
         + LettersOfTokens(Tail(toks))

RECURSIVE LettersOfLeaves(_)
\* how many plain characters the leaves of l hold
LettersOfLeaves(l) ==
    IF l = <<>> THEN 0
    ELSE Cardinality(Letters(l[1][3])) + LettersOfLeaves(Tail(l))

\* C16: a double quote that is never closed is no error, and the text from
\* that quote on is not lost: it is tokenized as the text of words, so the
\* tokens hold every plain character of the expression, and so do the
\* leaves of the AST when the parser returns one
C16_UnterminatedQuoteKept ==
    (pc = "done" /\ Unterminated(query)) =>
        /\ LettersOfTokens(tokens) = Cardinality(Letters(query))
        /\ ParserReturned => LettersOfLeaves(Leaves(prog)) = Cardinality(Letters(query))

\* the backslash at i escapes the character after it
IsEscape(s, i) ==
    /\ s[i] = "\\"
    /\ ~Escaped(s, i)
    /\ i < Len(s)
    /\ s[i + 1] \in {"\\", "\"", "(", ")"}

\* the parentheses of a text that are not escaped
OpenParens(s) == {i \in DOMAIN s : s[i] \in {"(", ")"} /\ ~Escaped(s, i)}

RECURSIVE Bare(_, _)
\* the first n characters of a text as the user means them: without the
\* quotes that delimit, the backslashes that escape, and the white space
Bare(s, n) ==
    IF n = 0 THEN <<>>
    ELSE IF IsEscape(s, n) \/ n \in OpenQuotes(s) \/ s[n] \in WS THEN Bare(s, n - 1)
    ELSE Append(Bare(s, n - 1), s[n])

RECURSIVE TextOfTokens(_)
\* the texts of the tokens one after the other, without white space
TextOfTokens(toks) ==
    IF toks = <<>> THEN <<>>
    ELSE SelectSeq(toks[1][2], LAMBDA c : c \notin WS) \o TextOfTokens(Tail(toks))

\* the part of a text the lexer scans: all of it, or what comes before the
\* quote that is never closed
Scanned(s) ==
    IF Unterminated(s)
    THEN (CHOOSE i \in OpenQuotes(s) : \A j \in OpenQuotes(s) : j <= i) - 1
    ELSE Len(s)

TokensOfType(tt) == {i \in DOMAIN tokens : tokens[i][1] = tt}

\* C17: an escaped quote, parenthesis or backslash is never structure: no
\* more parentheses are tokens than the text has unescaped ones, no more
\* quoted words than pairs of unescaped quotes, and the tokens read as the
\* text with each escape replaced by the bare character it escapes
C17_EscapesAreText ==
    pc = "done" =>
        /\ Cardinality(TokensOfType(OPCODE)) <= Cardinality(OpenParens(query))
        /\ 2 * Cardinality(TokensOfType(QUOTED_WORD)) <= Cardinality(OpenQuotes(query))
        /\ TextOfTokens(tokens) = Bare(query, Scanned(query))

\* the quoted word "\"" has been scanned: one token, whose text is the quote
C17_Witness ==
    /\ pc = "done"
    /\ query = <<"\"", "\\", "\"", "\"">>
    /\ tokens = <<<<QUOTED_WORD, <<"\"">>>>>>

(***************************************************************************)
(* The properties of a session.                                            *)
(***************************************************************************)
\* res is what the parser returns for an expression it ends on with p
Yields(p, res) == p.err = "" /\ p.ast = res

\* every entry of the cache is the AST of its query under self.locations
CacheExact ==
    \A k \in DOMAIN sqp_parse_cache.d :
        Yields(ParserParse(k, locations), sqp_parse_cache.d[k])

\* a step that changes the locations leaves the cache empty
LocationsStep == locations' # locations => sqp_parse_cache'.d = <<>>

\* C18: at every moment of a session each entry of the parse cache maps its
\* query to the AST the parser returns for it under the current locations,
\* so a query the parser rejects is never an entry; and a change of the
\* locations empties the cache
C18_CacheExact == [](CacheExact) /\ [][LocationsStep]_vars

\* search is no location any more, and search:y, parsed since, is cached as
\* a word to look for everywhere
C18_Witness ==
    /\ pc = "done"
    /\ locations = {S_all}
    /\ SearchRef(N_y) \in DOMAIN sqp_parse_cache.d
    /\ sqp_parse_cache.d[SearchRef(N_y)] = <<"token", S_all, SearchRef(N_y)>>

\* the call of parse has ended as o says: with the same exception, or with
\* the same set
EndedAs(o) == exc = o.exc /\ (o.exc = NoExc => ret = o.val)

\* C19: the cache does not change what parse does: whatever calls of parse,
\* changes of the locations and additions, deletions and renamings of
\* saved searches came before, a call of parse ends, with a cache and
\* without one, as it ends on a parser without a cache that has just been
\* constructed on the same locations and store
C19_CacheTransparent ==
    pc = "done" => EndedAs(parse(query, NoCache))

\* parse has returned the entries of search:y from its cache alone: the
\* tokens of the parser are still those of the query ( it rejected before
C19_Witness ==
    /\ pc = "done"
    /\ exc = NoExc
    /\ ret # {}
    /\ query = SearchRef(N_y)
    /\ ~sqp_parse_cache.is_none
    /\ tokens = <<<<OPCODE, <<"(">>>>>>

\* the step by which the _parse that parse has called starts to evaluate
TopLevelStarts ==
    /\ pc = "running"
    /\ Len(stack) = 1
    /\ Top.fn = "_parse"
    /\ Top.pos = 0
    /\ Len(stack') = 2

\* a top-level parse starts to evaluate at depth 1 with nothing seen
GuardStep == TopLevelStarts => (recurse_level' = 1 /\ searches_seen' = {})

\* parse has ended as on a parser just constructed, and at depth 0 when it
\* has returned
GuardDone ==
    pc = "done" =>
        /\ EndedAs(parse(query, NoCache))
        /\ exc = NoExc => recurse_level = 0

\* C20: the recursion guard belongs to one top-level parse: whatever the
\* calls before have left in recurse_level and searches_seen, a top-level
\* parse starts to evaluate at depth 1 with an empty seen-set, the depth is
\* 0 after a parse that returns, and parse ends as it does on a parser on
\* which no call was made before
C20_GuardPerParse == [](GuardDone) /\ [][GuardStep]_vars

\* a top-level parse starts to evaluate a query of its cache at depth 1
\* with nothing seen; the call before was parse('('), which raised and left
\* the depth at 1: the tokens of the parser are still those of that query
C20_Witness ==
    /\ pc = "running"
    /\ Len(stack) = 2
    /\ Top.pos = 0
    /\ query # <<"(">>
    /\ tokens = <<<<OPCODE, <<"(">>>>>>
    /\ current_token = 2
    /\ recurse_level = 1
    /\ searches_seen = {}

(***************************************************************************)
(* C21: with a database attached, after every call of add, delete, rename  *)
(* and set_all the mapping the database holds under the option name is     *)
(* the mapping in memory, and a call of lookup or names writes nothing to  *)
(* the database.                                                           *)
(***************************************************************************)
\* one call of lookup or of names
ReadStep == (\E n \in StoreNames : CallLookup(n)) \/ CallNames

\* one call of add, delete, rename or set_all
WriteStep ==
    \/ \E n \in StoreNames, v \in StoreValues : add(n, v)
    \/ \E n \in StoreNames : delete(n)
    \/ \E o \in StoreNames, n \in StoreNames : rename(o, n)
    \/ \E m \in StoreMaps : set_all(m)

C21_Persisted ==
    /\ [][WriteStep /\ db => pref' = queries']_vars
    /\ [][ReadStep => pref' = pref]_vars
    /\ [](db => pref = queries)

\* a database is attached, an entry has been added that it did not hold at
\* first, and lookup has been called
C21_Witness ==
    /\ db
    /\ N_y \in DOMAIN queries
    /\ queries[N_y] = W_b
    /\ answer.of = "lookup"
    /\ answer.query = W_b

(***************************************************************************)
(* C22: whatever calls of add, delete, rename and set_all have been made,  *)
(* every key of the store is a text and every value is a text with no      *)
(* white space at either end, never the marker of an absent entry.         *)
(***************************************************************************)
C22_Normalised ==
    \A k \in DOMAIN queries :
        /\ IsText(k)
        /\ IsText(queries[k])
        /\ strip(queries[k]) = queries[k]

(***************************************************************************)
(* C23: rename(old, new) moves an entry.  When old is in the store, then   *)
(* after the call lookup(new) is what lookup(old) was before it, also when *)
(* new is old; old is no longer in the store when new is another name; and *)
(* no entry under a third name has changed.                                *)
(***************************************************************************)
\* the step has moved the entry of old_name to new_name
Moved(old_name, new_name) ==
    /\ force_unicode(new_name) \in DOMAIN queries'
    /\ queries'[force_unicode(new_name)] = queries[force_unicode(old_name)]
    /\ force_unicode(new_name) # force_unicode(old_name)
           => force_unicode(old_name) \notin DOMAIN queries'
    /\ \A k \in (DOMAIN queries \cup DOMAIN queries')
                    \ {force_unicode(old_name), force_unicode(new_name)} :
           /\ k \in DOMAIN queries
           /\ k \in DOMAIN queries'
           /\ queries'[k] = queries[k]

C23_RenameMoves ==
    [][\A o \in StoreNames, n \in StoreNames :
           (rename(o, n) /\ force_unicode(o) \in DOMAIN queries) => Moved(o, n)]_vars

(***************************************************************************)
(* C24: an exception of the matcher reaches the caller of parse as it was  *)
(* raised when the leaf is evaluated at the top level of the query.  When  *)
(* the leaf is evaluated inside the expansion of a saved search, the       *)
(* caller receives ParseException 'Unknown error in saved search' with the *)
(* name of the innermost saved search around the leaf, and that exception  *)
(* is not changed again on its way out.                                    *)
(***************************************************************************)
\* the frames of the saved searches that are being expanded
Expansions == {i \in DOMAIN stack : stack[i].fn = "token" /\ IsSavedSearch(stack[i].node[2])}

InExpansion == Expansions # {}

\* the innermost saved search that is being expanded
Innermost == stack[CHOOSE i \in Expansions : \A j \in Expansions : j <= i]

\* the matcher's exception, after the step, is still on its way through the
\* expansion of a saved search
StillInside ==
    /\ exc' = MatcherError
    /\ \E i \in DOMAIN stack' : stack'[i].fn = "token" /\ IsSavedSearch(stack'[i].node[2])

FirstOr(ts) ==
    IF \E i \in DOMAIN ts : ts[i] = <<WORD, S_or>> /\ Depth(ts, i - 1) = 0
    THEN CHOOSE i \in DOMAIN ts :
            /\ ts[i] = <<WORD, S_or>> /\ Depth(ts, i - 1) = 0
            /\ \A j \in 1..(i - 1) : ~(ts[j] = <<WORD, S_or>> /\ Depth(ts, j - 1) = 0)
    ELSE 0

\* the number of 'not' that ts begins with
RECURSIVE LeadingNots(_)
LeadingNots(ts) ==
    IF ts # <<>> /\ ts[1] = <<WORD, S_not>> THEN 1 + LeadingNots(Tail(ts)) ELSE 0

\* where the operand ends that begins after the first k tokens of ts: at the
\* partner of its parenthesis, or at once
OperandEnd(ts, k) ==
    IF k < Len(ts) /\ ts[k + 1] = <<OPCODE, <<"(">>>>
    THEN CHOOSE j \in (k + 1)..Len(ts) :
            /\ Depth(ts, j) = Depth(ts, k)
            /\ \A i \in (k + 1)..(j - 1) : Depth(ts, i) # Depth(ts, k)
    ELSE k + 1

RECURSIVE OrTree(_)
RECURSIVE AndTree(_)
RECURSIVE NotTree(_)

OrTreeAt(ts, i) ==
    IF i = 0 THEN AndTree(ts)
    ELSE <<"or", AndTree(SubSeq(ts, 1, i - 1)), OrTree(SubSeq(ts, i + 1, Len(ts)))>>

OrTree(ts) == OrTreeAt(ts, FirstOr(ts))

AndTreeAt(ts, n) ==
    IF n >= Len(ts) THEN NotTree(ts)
    ELSE <<"and", NotTree(SubSeq(ts, 1, n)),
           AndTree(SubSeq(ts, IF ts[n + 1] = <<WORD, S_and>> THEN n + 2 ELSE n + 1,
                          Len(ts)))>>

AndTree(ts) == AndTreeAt(ts, OperandEnd(ts, LeadingNots(ts)))

NotTree(ts) ==
    IF ts[1] = <<WORD, S_not>> THEN <<"not", NotTree(Tail(ts))>>
    ELSE IF ts[1] = <<OPCODE, <<"(">>>> THEN OrTree(SubSeq(ts, 2, Len(ts) - 1))
    ELSE <<"token", S_all, ts[1][2]>>

\* every 'or', 'and' and 'not' of the text has been read as an operator
OperatorsRead ==
    \A j \in DOMAIN Leaves(prog) : Leaves(prog)[j][3] \notin {S_or, S_and, S_not}

C25_Precedence == (ParserReturned /\ OperatorsRead) => prog = OrTree(tokens)

\* 'a or a or a a' has been parsed: Or(a, Or(a, And(a, a)))
C25_Witness ==
    /\ ParserReturned
    /\ query = Join(<<W_a, S_or, W_a, S_or, W_a, W_a>>)
    /\ prog = <<"or", <<"token", S_all, W_a>>,
                <<"or", <<"token", S_all, W_a>>,
                  <<"and", <<"token", S_all, W_a>>, <<"token", S_all, W_a>>>>>>>>

(***************************************************************************)
(* C30: no 'and' is understood before a parenthesis.  When an operand is   *)
(* followed directly by '(' and the text before it has no defect, parse    *)
(* raises ParseException: 'Extra characters at end of search' when the     *)
(* operand is outside every parenthesis, 'missing )' when it is inside     *)
(* one.  A parenthesised group followed directly by a word is parsed as    *)
(* the And of the group and the word.                                      *)
(***************************************************************************)
\* token i is a '(' that directly follows the end of an operand
ParenAfterOperand(i) ==
    /\ i \in 2..Len(tokens)
    /\ tokens[i] = <<OPCODE, <<"(">>>>
    /\ \/ tokens[i - 1] = <<OPCODE, <<")">>>>
       \/ IsWordToken(tokens, i - 1) /\ ~ReadsKeyword(tokens, i - 1)

\* the tokens before token i, and the parentheses they leave open closed
ClosedPrefix(i) ==
    SubSeq(tokens, 1, i - 1) \o [j \in 1..Depth(tokens, i - 1) |-> <<OPCODE, <<")">>>>]

\* the text before token i has no defect of its own
SoundBefore(i) == ParseTokens(ClosedPrefix(i), locations).err = ""

\* the tokens are a parenthesised group that parses to g, and then one word
GroupThenWord(g) ==
    /\ g.err = ""
    /\ g.pos = Len(tokens)
    /\ tokens[1] = <<OPCODE, <<"(">>>>
    /\ tokens[Len(tokens) - 1] = <<OPCODE, <<")">>>>
    /\ tokens[Len(tokens)][1] = WORD
    /\ ~ReadsKeyword(tokens, Len(tokens))

\* the And of the group that parses to g and of the word after it
AndOfGroup(g) == <<"and", g.ast, <<"token", S_all, tokens[Len(tokens)][2]>>>>

AtSavedLeaf == Running("token") /\ IsSavedSearch(Top.node[2])

\* the calls of _parse in progress that have counted themselves
EnteredParses == Cardinality({i \in DOMAIN stack : stack[i].fn = "_parse" /\ stack[i].pos = 1})

\* evaluate(ast, candidates) by a parser that is not in the middle of a parse
EvaluateAlone(p, c) ==
    evaluate(p.ast, c, [recurse_level |-> 0, searches_seen |-> {},
                        cache |-> NoCache, calls |-> <<>>])

\* the leaf has returned what r is
ReturnedAs(r) == r.exc = NoExc /\ r.val = ret

C26_SavedSearchIsItsBody ==
    AtSavedLeaf =>
        /\ recurse_level = EnteredParses
        /\ Top.pos = 1 =>
              ReturnedAs(EvaluateAlone(ParserParse(lookup(SavedName(Top.node[3])), locations),
                                       Top.candidates))

\* a saved search has returned entries, evaluated over fewer candidates than
\* all the entries by a parser that hands the candidates to its matcher
C26_Witness ==
    /\ AtSavedLeaf
    /\ Top.pos = 1
    /\ optimize
    /\ Top.candidates # universal_set
    /\ ret # {}

(***************************************************************************)
(* C27: every call of parse comes to an end, with a result or with an      *)
(* exception, whatever the saved searches are, and while it runs the depth *)
(* counter is never above the number of saved searches plus 6.             *)
(***************************************************************************)
\* the number of names in the store, and 6
DepthLimit == Cardinality(DOMAIN queries) + SeenThreshold + 1

C27_Terminates ==
    /\ (pc = "running") ~> (pc = "done")
    /\ [](recurse_level <= DepthLimit)

\* a parse has ended at the limit: the store is the one saved search n1 that
\* refers to itself
C27_Witness ==
    /\ pc = "done"
    /\ Cardinality(DOMAIN queries) = 1
    /\ exc # NoExc
    /\ recurse_level = DepthLimit

(***************************************************************************)
(* C29: parse(query, candidates) does not look at its candidates argument. *)
(* Whatever set the caller passes, the query is evaluated over             *)
(* universal_set(), and the call ends as parse(query) ends.                *)
(***************************************************************************)
C29_CandidatesIgnored ==
    /\ (pc = "running" /\ stack # <<>>) => stack[1].candidates = universal_set
    /\ pc = "done" => EndedAs(parse(query, NoCache))

\* parse('not a', candidates) has returned an entry that was not among the
\* candidates it was called with
C29_Witness ==
    /\ pc = "done"
    /\ exc = NoExc
    /\ query = Join(<<S_not, W_a>>)
    /\ caller_candidates.given
    /\ ret # {}
    /\ ~(ret \subseteq caller_candidates.candidates)

(***************************************************************************)
(* C28: when the calls of parse of two threads interleave on one parser,   *)
(* each call ends as it would have ended alone, and the cache never holds, *)
(* for a query, the AST of another text.                                   *)
(***************************************************************************)
\* this thread's call, and the other thread's, has ended as it would alone
EndedAsAlone == pc = "done" => EndedAs(parse(query, NoCache))

OtherEndedAs(o) == other.exc = o.exc /\ (o.exc = NoExc => other.ret = o.val)

OtherEndedAsAlone == other.pc = "done" => OtherEndedAs(parse(other.query, NoCache))

C28_ThreadsIndependent ==
    /\ EndedAsAlone
    /\ OtherEndedAsAlone
    /\ CacheExact

====
